---- MODULE Spec2Model ----
(***************************************************************************)
(* Model of hyprwhspr-rs: the recording orchestrator (src/src/app.rs), the *)
(* global-shortcut detector (src/src/input/shortcuts.rs), the channel     *)
(* between them, and audio capture (src/src/audio/capture.rs).             *)
(*                                                                         *)
(* Specifications:                                                         *)
(*   Spec     the orchestrator's event loop fed by arbitrary shortcut      *)
(*            events and configuration updates;                            *)
(*   SpecDet  one detector thread polling its keyboards;                   *)
(*   SpecSys  a Hold detector wired to the orchestrator, with the          *)
(*            fairness of the two threads' loops;                          *)
(*   SpecStop a Hold listener being stopped, its keyboard handles in       *)
(*            blocking or non-blocking mode;                               *)
(*   SpecCapture   AudioCapture::start_recording choosing and opening an   *)
(*            input device;                                                *)
(*   SpecTrack     one recording session: its callbacks, its stop and the  *)
(*            pipeline its audio goes through;                             *)
(*   SpecLocks     the audio thread and the owner of a session, step by    *)
(*            step, with the two mutexes they share;                       *)
(*   SpecResample  resample_audio on short sequences.                      *)
(***************************************************************************)
EXTENDS Integers, Sequences, FiniteSets, TLC

VARIABLES
    \* ---- HyprwhsprApp (app.rs:170-187) and its event loop
    pc,                 \* position of run(): "new" | "select" | "pipeline"
    recording_session,  \* Option<RecordingSession>
    recording_trigger,  \* Option<RecordingTrigger>
    is_processing,      \* bool
    shortcut_rx,        \* mpsc channel of ShortcutEvent (capacity 10)
    status_recording,   \* last value written by StatusWriter::set_recording
    open_streams,       \* hardware input streams currently open
    peak_streams,       \* most streams ever open at once
    result,             \* what the last handler call returned
    last,               \* the last shortcut event handled, the state it met,
                        \* and the outcome of the pipeline it ran
    \* ---- configuration
    current_config,
    config_rx,          \* watch channel: [value, changed]
    press_listener,
    hold_listener,
    threads,            \* per kind: the detector threads alive, the most ever
                        \* alive at once, whether the last ensure_listener
                        \* spawned one
    preferred_device,
    transcriber,
    fast_vad,
    \* ---- GlobalShortcuts::run (one detector thread)
    kind,               \* ShortcutKind of the detector
    dpc,                \* "off" | "run" | "exited" | the path of the device
                        \* whose blocking read the loop is parked in
    devices,            \* self.devices: paths of the monitored keyboards
    stale,              \* monitored handles whose node has gone since they were opened
    pressed_keys,
    combination_active,
    last_trigger,
    fallback_rescan_enabled,
    last_fallback_rescan,
    rescan_rx,          \* std mpsc channel of InputDeviceEvent
    \* ---- the detector's environment
    present,            \* input device nodes that exist
    held,               \* the keys physically held down on the keyboard
    monitor,            \* the udev watcher thread: "starting" | "watching" | "unavailable"
    run,                \* the key-downs handled since no key was down
    \* ---- ShortcutListener (app.rs:57-122) of that thread
    stop_flag,          \* stop: Arc<AtomicBool>
    handle,             \* Option<JoinHandle<()>>: "Some" | "None"
    stopper,            \* the caller of stop(): "idle" | "join" | "returned"
    blocking,           \* monitored handles left in blocking mode
    \* ---- the cpal host and AudioCapture::start_recording (capture.rs:130-167)
    input_devices,      \* what host.input_devices() enumerates, in order
    default_input_device,   \* host.default_input_device()
    unopenable,         \* the devices whose stream cannot be built or started
    attempts,           \* the calls of try_start_with_selection, in order
    capture,            \* start_recording: its position and what it returned
    \* ---- RecordingSession (capture.rs:13-18) and the pipeline of its audio
    sample_rate_tracker,
    fed,                \* what the callbacks of the session have delivered
    captured,           \* the CapturedAudio RecordingSession::stop returned
    audio,              \* the audio handed from one pipeline step to the next
    stage,              \* "off" | "recording" | "preprocess" | "transcribe" |
                        \* "inject" | "done"
    calls,              \* the collaborators invoked for the session, in order
    \* ---- resample_audio (app.rs:28-60)
    resample_in,        \* its arguments
    resample_out,       \* what it returned
    \* ---- the threads of one open stream (capture.rs:202-258, 366-380)
    mutex,              \* who holds sample_rate_tracker and audio_data
    callback,           \* the position of the stream's data callback
    caller,             \* the position of the thread that owns the session
    stream              \* "open" | "dropped"

orchVars == <<pc, recording_session, recording_trigger, is_processing,
              status_recording, open_streams, peak_streams, result, last>>
cfgVars  == <<current_config, config_rx, press_listener, hold_listener, threads,
              preferred_device, transcriber, fast_vad>>
detVars  == <<kind, dpc, devices, stale, pressed_keys, combination_active,
              last_trigger, fallback_rescan_enabled, last_fallback_rescan,
              rescan_rx, present, held, monitor, run,
              stop_flag, handle, stopper, blocking>>
stopVars == <<stop_flag, handle, stopper, blocking>>
hostVars == <<input_devices, default_input_device, unopenable, attempts, capture>>
sessionVars == <<sample_rate_tracker, fed, captured, audio, stage, calls>>
resampleVars == <<resample_in, resample_out>>
lockVars == <<mutex, callback, caller, stream>>
audioVars == <<hostVars, sessionVars, resampleVars, lockVars>>
vars == <<orchVars, cfgVars, detVars, shortcut_rx, audioVars>>

----------------------------------------------------------------------------
(* Bounds of the model *)

\* events the abstract shortcut sources keep queued at once
MaxPending == 1

\* input devices the host enumerates
MaxInputDevices == 2

\* callbacks the stream delivers to one session
MaxCallbacks == 3

\* samples in an argument of resample_audio
MaxLen == 3

\* calls of get_current_level on one session
MaxLevels == 2
\* samples an audio callback sequence delivers to one session (saturating)
MaxSamples == 1

\* InputDeviceEvents the udev watcher keeps queued at once
MaxDeviceEvents == 1
\* steps of debounce_duration after which a past Instant is no longer aged
MaxTicks == 2

(* Program constants *)

\* mpsc::channel(10)
ChannelCapacity == 10
\* Duration::from_millis(500)
debounce_duration == 500
\* Instant::now() - Duration::from_secs(10), in ms
initial_trigger_age == 10000
\* Duration::from_secs(1), in ms
fallback_rescan_interval == 1000

\* AudioCapture::sample_rate (capture.rs:121) and StreamConfig::channels (133)
requested_sample_rate == 16000
config_channels == 1

\* the measurement window of SampleRateTracker::update (0.05 s), in ms
window_ms == 50

\* the rate the fast VAD falls back to and the transcriber takes (app.rs:596, 705)
transcription_rate == 16000

----------------------------------------------------------------------------
(* Values *)

\* a cpal::Device: an identity and the name device.name() gives; no device
NoDevice == [id |-> 0, name |-> <<>>]

NoSession == [some |-> FALSE, samples |-> 0]

\* Option::None of an instant, of a rate
NoInstant == -1
NoRate == -1

\* CapturedAudio (capture.rs:20-24), its samples reduced to their number
CapturedAudio(samples, sample_rate) ==
    [samples |-> samples, sample_rate |-> sample_rate]
NoAudio == CapturedAudio(0, 0)

\* the tracker of a session that is gone
NoTracker ==
    [requested |-> 0, channels |-> 0, last_capture |-> NoInstant,
     accumulated_frames |-> 0, accumulated_duration |-> 0, measured |-> NoRate]

\* nothing delivered yet: the callbacks so far, the frames they carried, the
\* frames the tracker counted and the time it measured them over, whether
\* every counted callback carried 16 frames per millisecond, the frames and
\* duration of the last window that completed and of the last one that
\* completed having counted a frame, and the number of windows completed
NoFeed ==
    [callbacks |-> 0, frames |-> 0, first |-> NoInstant, ordered |-> TRUE,
     counted |-> 0, elapsed |-> 0, steady |-> TRUE,
     window |-> [frames |-> 0, ms |-> 0], rated |-> [frames |-> 0, ms |-> 0],
     windows |-> 0]

\* resample_audio has not returned
NoOutput == [returned |-> FALSE, panicked |-> FALSE, samples |-> <<>>]
Session(n) == [some |-> TRUE, samples |-> n]

ShortcutEvent(k, p, busy) == [kind |-> k, phase |-> p, busy |-> busy]
NoEvent == [kind |-> "None", phase |-> "None", busy |-> FALSE]

NoListener == [some |-> FALSE, shortcut |-> "", kind |-> "None"]
Listener(s, k) == [some |-> TRUE, shortcut |-> s, kind |-> k]

\* Config, reduced to the fields apply_config_update reads.  "" is None.
Config(press, hold, dev, provider, wvad, fvad) ==
    [press |-> press, hold |-> hold, audio_device |-> dev,
     provider |-> provider, whisper_vad |-> wvad, fast_vad |-> fvad]

InitialConfig == Config("SUPER+ALT+R", "", 0, "WhisperCpp", FALSE, FALSE)

Configs ==
    { InitialConfig,
      Config("SUPER+ALT+R", "SUPER+ALT+H", 1, "WhisperCpp", FALSE, TRUE),
      Config("CTRL+SHIFT+V", "", 0, "Parakeet", FALSE, TRUE) }


NoVad == "None"
SomeVad == "Some"

Backend(config) == [provider |-> config.provider, whisper_vad |-> config.whisper_vad]

\* the watch channel of ConfigManager::subscribe: the latest value, whether
\* the receiver has seen it, and whether it was sent while the app was busy
Watch(value, changed, busy) == [value |-> value, changed |-> changed, busy |-> busy]

Max(a, b) == IF a >= b THEN a ELSE b

----------------------------------------------------------------------------
(* Pure helpers of app.rs *)

\* app.rs:156-168
fast_vad_allowed(config) ==
    IF ~config.fast_vad THEN FALSE
    ELSE IF config.provider = "WhisperCpp" /\ config.whisper_vad THEN FALSE
    ELSE TRUE

\* transcription/mod.rs:149-178, on the reduced Config
needs_refresh(current, new) ==
    IF current.provider # new.provider THEN TRUE
    ELSE IF new.provider = "WhisperCpp" THEN current.whisper_vad # new.whisper_vad
    ELSE FALSE

\* tokio mpsc Sender::try_send: a full channel refuses the event
try_send(chan, event) ==
    IF Len(chan) < ChannelCapacity THEN Append(chan, event) ELSE chan

----------------------------------------------------------------------------
(* HyprwhsprApp::handle_shortcut and what it calls *)

\* app.rs:473 and 486
IgnoredWhileProcessing == is_processing

\* app.rs:478 (preceded by a faulty variant: only a Press-triggered session is stopped)
PressStartStops_OwnTrigger ==
    recording_session.some /\ recording_trigger = "PressShortcut"
PressStartStops == recording_session.some

\* app.rs:491 (preceded by a faulty variant: the check is missing)
HoldStartIgnored_Never == FALSE
HoldStartIgnored_OwnTrigger ==
    recording_session.some /\ recording_trigger = "HoldShortcut"
HoldStartIgnored == recording_session.some

\* app.rs:499-500 (preceded by a faulty variant: the trigger is not consulted)
HoldEndStops_AnyTrigger == recording_session.some
HoldEndStops_WrongTrigger ==
    recording_trigger = "PressShortcut" /\ recording_session.some
HoldEndStops ==
    /\ recording_trigger = "HoldShortcut"
    /\ recording_session.some

\* app.rs:513-540.  play_start_sound, AudioCapture::start_recording and
\* StatusWriter::set_recording each return a Result; "ok" is all three Ok.
start_recording(trigger) ==
    \E outcome \in {"ok", "sound_err", "open_err", "status_err"} :
        /\ IF outcome \in {"sound_err", "open_err"}
           THEN /\ UNCHANGED <<recording_session, recording_trigger,
                               open_streams, peak_streams, status_recording>>
                /\ result' = "Err"
           ELSE /\ recording_session' = Session(0)
                /\ recording_trigger' = trigger
                \* the new stream is opened before the assignment drops an old one
                /\ peak_streams' = Max(peak_streams, open_streams + 1)
                /\ open_streams' = open_streams + 1
                                   - (IF recording_session.some THEN 1 ELSE 0)
                /\ status_recording' = IF outcome = "ok" THEN TRUE
                                       ELSE status_recording
                /\ result' = IF outcome = "ok" THEN "Ok" ELSE "Err"
        /\ UNCHANGED <<is_processing, pc>>

\* app.rs:542-582 up to the await of process_audio.  The session is taken
\* first, so every return drops it and closes its stream.
stop_recording ==
    IF ~recording_session.some
    THEN /\ result' = "Err"
         /\ UNCHANGED <<recording_session, recording_trigger, is_processing,
                        pc, status_recording, open_streams, peak_streams>>
    ELSE \E outcome \in {"ok", "sound_err", "status_err", "stop_err"} :
        /\ recording_session' = NoSession
        /\ open_streams' = open_streams - 1
        /\ UNCHANGED peak_streams
        /\ status_recording' = IF outcome \in {"ok", "stop_err"} THEN FALSE
                               ELSE status_recording
        /\ recording_trigger' = IF outcome = "ok" THEN "None"
                                ELSE recording_trigger
        /\ IF outcome = "ok" /\ recording_session.samples > 0
           THEN \* captured audio is not empty: process_audio is awaited
                /\ is_processing' = TRUE
                /\ pc' = "pipeline"
                /\ result' = "Pending"
           ELSE /\ UNCHANGED <<is_processing, pc>>
                /\ result' = IF outcome = "ok" THEN "Ok" ELSE "Err"

Ignored ==
    /\ result' = "Ok"
    /\ UNCHANGED <<recording_session, recording_trigger, is_processing, pc,
                   status_recording, open_streams, peak_streams>>

\* app.rs:470-511
handle_shortcut(event) ==
    CASE event.kind = "Press" /\ event.phase = "Start" ->
            IF IgnoredWhileProcessing THEN Ignored
            ELSE IF PressStartStops THEN stop_recording
            ELSE start_recording("PressShortcut")
      [] event.kind = "Hold" /\ event.phase = "Start" ->
            IF IgnoredWhileProcessing THEN Ignored
            ELSE IF HoldStartIgnored THEN Ignored
            ELSE start_recording("HoldShortcut")
      [] event.kind = "Hold" /\ event.phase = "End" ->
            IF HoldEndStops THEN stop_recording
            ELSE Ignored
      [] OTHER -> Ignored

\* The outcomes of process_audio (app.rs:655-762): an error of the fast VAD,
\* silence only, an error of the transcriber, an empty text, an error of the
\* injector, or text injected.
PipelineOutcomes ==
    {"vad_err", "silence", "transcribe_err", "empty_text", "inject_err", "injected"}

PipelineFailures == {"vad_err", "transcribe_err", "inject_err"}

\* app.rs:569-575: an Err of process_audio is logged, not returned, so the
\* flag is reset on every outcome (preceded by a faulty variant: the error is returned with `?`)
is_processing_after_Propagated(outcome) == outcome \in PipelineFailures
is_processing_after(outcome) == FALSE


----------------------------------------------------------------------------
(* Listeners and configuration updates *)

\* app.rs:325-353.  A listener that matches is kept; any other Some(target)
\* ends with a listener for target (restart or spawn); None stops and clears.
matches(listener, shortcut, k) ==
    listener.shortcut = shortcut /\ listener.kind = k

ensure_listener(slot, k, shortcut) ==
    IF shortcut # ""
    THEN IF slot.some /\ matches(slot, shortcut, k)
         THEN slot
         ELSE Listener(shortcut, k)
    ELSE NoListener

\* The detector threads of one kind.  spawn (app.rs:64-91) starts one; stop
\* (104-111) returns when the listener's thread has been joined; restart
\* (93-102) stops, then spawns (preceded by a faulty variant: a restart that
\* spawns the new thread before it stops the old one).
NoThreads == [alive |-> 0, peak |-> 0, spawned |-> FALSE]
spawn(t) ==
    [alive |-> t.alive + 1, peak |-> Max(t.peak, t.alive + 1), spawned |-> TRUE]
stop(t) == [t EXCEPT !.alive = @ - 1]
restart_SpawnFirst(t) == stop(spawn(t))
restart(t) == spawn(stop(t))

\* app.rs:325-353, the threads ensure_listener leaves
ensure_threads(t, slot, k, shortcut) ==
    LET t0 == [t EXCEPT !.spawned = FALSE] IN
    IF shortcut # ""
    THEN IF slot.some
         THEN IF matches(slot, shortcut, k) THEN t0 ELSE restart(t0)
         ELSE spawn(t0)
    ELSE IF slot.some THEN stop(t0) ELSE t0

\* app.rs:320-323
ensure_shortcut_listeners(t, press, hold) ==
    [Press |-> ensure_threads(t.Press, press_listener, "Press", press),
     Hold  |-> ensure_threads(t.Hold, hold_listener, "Hold", hold)]

\* app.rs:362
ConfigBusy == recording_session.some \/ is_processing

\* app.rs:355-456.  TextInjector::new, TranscriptionBackend::build/initialize
\* and FastVad::maybe_new return Results; each `?` leaves what was assigned
\* before it.
apply_config_update(new_config) ==
    IF new_config = current_config
    THEN /\ result' = "Ok"
         /\ UNCHANGED <<current_config, press_listener, hold_listener, threads,
                        preferred_device, transcriber, fast_vad>>
    ELSE IF ConfigBusy
    THEN /\ result' = "Ok"
         /\ UNCHANGED <<current_config, press_listener, hold_listener, threads,
                        preferred_device, transcriber, fast_vad>>
    ELSE
      LET transcriber_changed == needs_refresh(current_config, new_config)
          shortcuts_changed ==
              \/ new_config.press # current_config.press
              \/ new_config.hold # current_config.hold
              \/ ~press_listener.some
              \/ (new_config.hold # "" /\ ~hold_listener.some)
          fast_vad_was_allowed == fast_vad_allowed(current_config)
          fast_vad_is_allowed == fast_vad_allowed(new_config)
          vad_rebuilt ==
              /\ fast_vad_is_allowed
              /\ \/ ~fast_vad_was_allowed
                 \/ current_config.fast_vad # new_config.fast_vad
                 \/ fast_vad = NoVad
          outcomes == {"ok", "injector_err"}
                      \cup (IF transcriber_changed THEN {"backend_err"} ELSE {})
                      \cup (IF vad_rebuilt THEN {"vad_err"} ELSE {})
      IN \E outcome \in outcomes :
          /\ preferred_device' =
                IF outcome # "injector_err"
                   /\ current_config.audio_device # new_config.audio_device
                THEN new_config.audio_device
                ELSE preferred_device
          /\ transcriber' =
                IF outcome \in {"ok", "vad_err"} /\ transcriber_changed
                THEN Backend(new_config)
                ELSE transcriber
          /\ IF outcome \in {"ok", "vad_err"} /\ shortcuts_changed
             THEN /\ press_listener' =
                        ensure_listener(press_listener, "Press", new_config.press)
                  /\ hold_listener' =
                        ensure_listener(hold_listener, "Hold", new_config.hold)
                  /\ threads' = ensure_shortcut_listeners(
                                    threads, new_config.press, new_config.hold)
             ELSE UNCHANGED <<press_listener, hold_listener, threads>>
          /\ fast_vad' =
                IF outcome \in {"ok", "vad_err"} /\ ~fast_vad_is_allowed THEN NoVad
                ELSE IF outcome = "ok" /\ vad_rebuilt THEN SomeVad
                ELSE fast_vad
          /\ current_config' = IF outcome = "ok" THEN new_config ELSE current_config
          /\ result' = IF outcome = "ok" THEN "Ok" ELSE "Err"

----------------------------------------------------------------------------
(* HyprwhsprApp::run: the steps of the event loop *)

\* app.rs:276-283: the listeners of the initial configuration are spawned
RunStart ==
    /\ pc = "new"
    /\ pc' = "select"
    /\ press_listener' = ensure_listener(press_listener, "Press", current_config.press)
    /\ hold_listener' = ensure_listener(hold_listener, "Hold", current_config.hold)
    /\ threads' = ensure_shortcut_listeners(
                      threads, current_config.press, current_config.hold)
    /\ UNCHANGED <<recording_session, recording_trigger, is_processing,
                   status_recording, open_streams, peak_streams, result, last>>
    /\ UNCHANGED <<current_config, config_rx, preferred_device, transcriber, fast_vad>>
    /\ UNCHANGED <<detVars, audioVars, shortcut_rx>>

\* app.rs:287-299: the select! branch of the shortcut channel
HandleShortcut ==
    /\ pc = "select"
    /\ shortcut_rx # <<>>
    /\ LET event == Head(shortcut_rx) IN
        /\ shortcut_rx' = Tail(shortcut_rx)
        /\ last' = [ev |-> event,
                    pre_session |-> recording_session,
                    pre_trigger |-> recording_trigger,
                    after_failure |-> last.pipeline \in PipelineFailures,
                    pipeline |-> "none"]
        /\ handle_shortcut(event)
    /\ UNCHANGED <<cfgVars, detVars, audioVars>>

\* app.rs:567-575: process_audio returns, whatever its outcome, and
\* stop_recording, handle_shortcut and the select! branch return after it
PipelineComplete ==
    /\ pc = "pipeline"
    /\ \E outcome \in PipelineOutcomes :
        /\ (outcome \in {"vad_err", "silence"} => fast_vad = SomeVad)
        /\ last' = [last EXCEPT !.pipeline = outcome]
        /\ is_processing' = is_processing_after(outcome)
    /\ pc' = "select"
    /\ result' = "Ok"
    /\ UNCHANGED <<recording_session, recording_trigger, status_recording,
                   open_streams, peak_streams>>
    /\ UNCHANGED <<cfgVars, detVars, audioVars, shortcut_rx>>

\* app.rs:300-313: the select! branch of the configuration watch channel
ConfigBranch ==
    /\ pc = "select"
    /\ config_rx.changed
    /\ config_rx' = [config_rx EXCEPT !.changed = FALSE]
    /\ apply_config_update(config_rx.value)
    /\ UNCHANGED <<pc, recording_session, recording_trigger, is_processing,
                   status_recording, open_streams, peak_streams, last>>
    /\ UNCHANGED <<detVars, audioVars, shortcut_rx>>

----------------------------------------------------------------------------
(* The environment of the event loop *)

\* capture.rs:366-375: the stream's callback appends to the session's buffer
AudioCallback ==
    /\ recording_session.some
    /\ recording_session.samples < MaxSamples
    /\ recording_session' = Session(recording_session.samples + 1)
    /\ UNCHANGED <<pc, recording_trigger, is_processing, status_recording,
                   open_streams, peak_streams, result, last>>
    /\ UNCHANGED <<cfgVars, detVars, audioVars, shortcut_rx>>

\* A listener thread sends an event (shortcuts.rs:190-199, 219-228).  A Press
\* listener sends only Start.  The event is tagged with whether the
\* orchestrator was processing when it was sent.
SendShortcut ==
    \E k \in {"Press", "Hold"}, p \in {"Start", "End"} :
        /\ pc # "new"
        /\ k = "Press" => (p = "Start" /\ press_listener.some)
        /\ k = "Hold" => hold_listener.some
        /\ Len(shortcut_rx) < MaxPending
        /\ shortcut_rx' = try_send(shortcut_rx, ShortcutEvent(k, p, is_processing))
        /\ UNCHANGED <<orchVars, cfgVars, detVars, audioVars>>

\* The configuration watcher publishes a new Config on the watch channel
ConfigChanged ==
    \E c \in Configs :
        /\ pc # "new"
        /\ c # config_rx.value
        /\ config_rx' = Watch(c, TRUE, recording_session.some \/ is_processing)
        /\ UNCHANGED <<current_config, press_listener, hold_listener, threads,
                       preferred_device, transcriber, fast_vad>>
        /\ UNCHANGED <<orchVars, detVars, audioVars, shortcut_rx>>

----------------------------------------------------------------------------
(* Initial states *)

\* HyprwhsprApp::new, app.rs:253-270
InitApp ==
    /\ recording_session = NoSession
    /\ recording_trigger = "None"
    /\ is_processing = FALSE
    /\ shortcut_rx = <<>>
    /\ status_recording = FALSE
    /\ open_streams = 0
    /\ peak_streams = 0
    /\ result = "Ok"
    /\ last = [ev |-> NoEvent, pre_session |-> NoSession,
               pre_trigger |-> "None", after_failure |-> FALSE, pipeline |-> "none"]

InitOrch ==
    /\ pc = "new"
    /\ InitApp

InitCfg ==
    /\ current_config \in Configs
    /\ config_rx = Watch(current_config, FALSE, FALSE)
    /\ press_listener = NoListener
    /\ hold_listener = NoListener
    /\ threads = [Press |-> NoThreads, Hold |-> NoThreads]
    /\ preferred_device = current_config.audio_device
    /\ transcriber = Backend(current_config)
    /\ fast_vad = IF fast_vad_allowed(current_config) THEN SomeVad ELSE NoVad

\* no detector thread is modelled
DetOff ==
    /\ kind = "None"
    /\ dpc = "off"
    /\ devices = {}
    /\ stale = {}
    /\ pressed_keys = {}
    /\ combination_active = FALSE
    /\ last_trigger = 0
    /\ fallback_rescan_enabled = FALSE
    /\ last_fallback_rescan = 0
    /\ rescan_rx = <<>>
    /\ present = {}
    /\ held = {}
    /\ monitor = "unavailable"
    /\ run = <<>>
    /\ stop_flag = FALSE
    /\ handle = "None"
    /\ stopper = "idle"
    /\ blocking = {}

\* no audio host is modelled
HostOff ==
    /\ input_devices = <<>>
    /\ default_input_device = NoDevice
    /\ unopenable = {}
    /\ attempts = <<>>
    /\ capture = [pc |-> "off", result |-> "None", failed_name |-> <<>>]

\* no session is followed through the pipeline
SessionOff ==
    /\ sample_rate_tracker = NoTracker
    /\ fed = NoFeed
    /\ captured = NoAudio
    /\ audio = NoAudio
    /\ stage = "off"
    /\ calls = <<>>

\* resample_audio is not called
ResampleOff ==
    /\ resample_in = [samples |-> <<>>, src_rate |-> 0, dst_rate |-> 0,
                      origin |-> <<>>]
    /\ resample_out = NoOutput

\* the threads of the stream are not followed
LocksOff ==
    /\ mutex = [sample_rate_tracker |-> "free", audio_data |-> "free"]
    /\ callback = [pc |-> "off", runs |-> 0]
    /\ caller = [pc |-> "off", step |-> 0, levels |-> 0]
    /\ stream = "dropped"

AudioOff == HostOff /\ SessionOff /\ ResampleOff /\ LocksOff

Init == InitOrch /\ InitCfg /\ DetOff /\ AudioOff

Next ==
    \/ RunStart
    \/ HandleShortcut
    \/ PipelineComplete
    \/ ConfigBranch
    \/ AudioCallback
    \/ SendShortcut
    \/ ConfigChanged

Spec == Init /\ [][Next]_vars


----------------------------------------------------------------------------
(* GlobalShortcuts: one detector thread and its keyboards *)

\* parse_shortcut("CTRL+SHIFT+V"), shortcuts.rs:285-300 with parse_key
target_keys == {"KEY_LEFTCTRL", "KEY_LEFTSHIFT", "KEY_V"}

\* the keys the keyboards of the model have
Keys == target_keys \cup {"KEY_X"}

\* /dev/input/event* nodes: the keyboard the user types on, and a second
\* keyboard that nobody types on
Paths == {"event0", "event1"}
Keyboard == "event0"

\* shortcuts.rs:446-450: both nodes have KEY_A, KEY_Z and KEY_ENTER
is_keyboard_device(path) == path \in {"event0", "event1"}

\* shortcuts.rs:387-410: evdev::enumerate filtered by is_keyboard_device
find_keyboard_devices == {path \in present : is_keyboard_device(path)}

\* enum InputDeviceEvent: Added | Removed | Changed | MonitorUnavailable
InputDeviceEvent(type, path) == [type |-> type, path |-> path]
MonitorUnavailable == InputDeviceEvent("MonitorUnavailable", "")


\* Instant::now() (shortcuts.rs:88, 124, 171, 187, 270): Instants are kept
\* relative to the present
now == 0

\* an Instant after debounce_duration more has passed; past the horizon the
\* loop's comparisons no longer tell Instants apart
Age(t) ==
    IF t <= now - MaxTicks * debounce_duration THEN t ELSE t - debounce_duration

\* the key-downs handled since no key was down: their order, the Start
\* events they caused, whether anything else happened in between, and
\* whether the loop would trigger (170-176) when they began; and whether the
\* loop has handled the release of a target key since it last emitted Start,
\* the phase of the event it emitted last, and whether the handle of the
\* typing keyboard is one the loop opened on an Added event
NewRun == [log |-> <<>>, starts |-> 0, clean |-> TRUE,
           armed |-> kind = "Hold" \/ now - last_trigger > debounce_duration,
           released |-> run.released, sent |-> run.sent,
           readded |-> run.readded]
Spoilt == [log |-> <<>>, starts |-> 0, clean |-> FALSE, armed |-> FALSE,
           released |-> run.released, sent |-> run.sent,
           readded |-> run.readded]

\* shortcuts.rs:164 and 210 (preceded by a faulty variant: the subset test is written the other
\* way round)
CombinationPressed_Reversed(pressed) == pressed # {} /\ pressed \subseteq target_keys
CombinationPressed(pressed) == target_keys \subseteq pressed

\* shortcuts.rs:170-176 (preceded by a faulty variant: the comparison is >=)
should_trigger_AtLeast ==
    IF kind = "Hold" THEN TRUE
    ELSE now - last_trigger >= debounce_duration
should_trigger ==
    IF kind = "Hold" THEN TRUE
    ELSE now - last_trigger > debounce_duration

\* shortcuts.rs:160-204: a key event with value 1
KeyDown(key) ==
    LET pressed == pressed_keys \cup {key} IN
    /\ pressed_keys' = pressed
    /\ IF CombinationPressed(pressed) /\ ~combination_active /\ should_trigger
       THEN /\ last_trigger' = now
            /\ combination_active' = TRUE
            /\ shortcut_rx' = try_send(shortcut_rx, ShortcutEvent(kind, "Start", is_processing))
            /\ run' = IF run.clean /\ key \in target_keys
                      THEN [run EXCEPT !.log = Append(@, key), !.starts = @ + 1,
                                       !.released = FALSE, !.sent = "Start"]
                      ELSE [Spoilt EXCEPT !.released = FALSE, !.sent = "Start"]
       ELSE /\ UNCHANGED <<last_trigger, combination_active, shortcut_rx>>
            /\ run' = IF run.clean /\ key \in target_keys
                      THEN [run EXCEPT !.log = Append(@, key)]
                      ELSE Spoilt

\* shortcuts.rs:209-210 (preceded by faulty variants: any release breaks the
\* combination; combination_active is not consulted; no release breaks it)
CombinationBroken_Never(pressed) == FALSE
CombinationBroken_AnyRelease(pressed) == combination_active
CombinationBroken_Unguarded(pressed) == ~CombinationPressed(pressed)
CombinationBroken(pressed) == combination_active /\ ~CombinationPressed(pressed)

\* shortcuts.rs:218 (preceded by a faulty variant: the kind is not consulted)
SendsEnd_AnyKind == TRUE
SendsEnd == kind = "Hold"

\* shortcuts.rs:206-231: a key event with value 0
KeyUp(key) ==
    LET pressed == pressed_keys \ {key} IN
    /\ pressed_keys' = pressed
    /\ UNCHANGED last_trigger
    /\ IF CombinationBroken(pressed)
       THEN /\ combination_active' = FALSE
            /\ shortcut_rx' = IF SendsEnd
                              THEN try_send(shortcut_rx, ShortcutEvent(kind, "End", is_processing))
                              ELSE shortcut_rx
       ELSE UNCHANGED <<combination_active, shortcut_rx>>

\* HashSet::clear at shortcuts.rs:132, 263 and 271 (preceded by a faulty
\* variant: the set is kept)
clear_Kept(set) == set
clear(set) == {}

\* shortcuts.rs:480-499 with open_keyboard_device (452-466): Device::open
\* fails on a node that is gone, and a device that is no keyboard is skipped
\* (preceded by a faulty variant: the device is never opened)
add_keyboard_device_Never(devs, path) == devs
add_keyboard_device(devs, path) ==
    IF path \in devs THEN devs
    ELSE IF path \in present /\ is_keyboard_device(path) THEN devs \cup {path}
    ELSE devs

\* shortcuts.rs:501-513
remove_keyboard_device(devs, path) == devs \ {path}

\* shortcuts.rs:468-478
handle_input_device_event(event) ==
    CASE event.type = "Added" -> add_keyboard_device(devices, event.path)
      [] event.type = "Removed" -> remove_keyboard_device(devices, event.path)
      [] event.type = "Changed" ->
            add_keyboard_device(remove_keyboard_device(devices, event.path), event.path)
      [] OTHER -> devices

\* shortcuts.rs:560-565 (preceded by a faulty variant: ENXIO is missing)
is_device_disconnect_error_NoEnxio(err) == err \in {"ENODEV", "EBADF"}
is_device_disconnect_error(err) == err \in {"ENODEV", "EBADF", "ENXIO"}

envVars == <<present, held, monitor>>

\* shortcuts.rs:118-136: one event of the watcher is taken off rescan_rx
DeviceEvent ==
    /\ dpc = "run"
    /\ rescan_rx # <<>>
    /\ LET event == Head(rescan_rx) IN
        /\ rescan_rx' = Tail(rescan_rx)
        /\ IF event.type = "MonitorUnavailable"
           THEN /\ fallback_rescan_enabled' = TRUE
                /\ last_fallback_rescan' = now - fallback_rescan_interval
                /\ UNCHANGED <<devices, stale, pressed_keys, combination_active, run>>
           ELSE /\ devices' = handle_input_device_event(event)
                /\ stale' = IF event.type = "Added" THEN stale ELSE stale \ {event.path}
                /\ pressed_keys' = clear(pressed_keys)
                /\ combination_active' = FALSE
                /\ run' = [Spoilt EXCEPT !.readded =
                                IF event.path = Keyboard
                                THEN /\ event.type = "Added"
                                     /\ (@ \/ Keyboard \notin devices)
                                     /\ Keyboard \in devices'
                                ELSE @]
                /\ UNCHANGED <<fallback_rescan_enabled, last_fallback_rescan>>
    /\ UNCHANGED <<kind, dpc, last_trigger, envVars, shortcut_rx>>
    /\ UNCHANGED <<orchVars, cfgVars, stopVars, audioVars>>

\* shortcuts.rs:148-237: a monitored keyboard delivers a key event (1 down,
\* 0 up, 2 repeat) and the loop handles it; a keyboard that is not monitored
\* changes only the physical key state, and so does any keyboard once the
\* thread has exited or while the loop is parked in the read of another
\* device. An event of the device the loop is parked on ends that read: the
\* loop consults the stop flag (150-152) before it handles the event.
KeyHandled ==
    \E key \in Keys, value \in {0, 1, 2} :
        /\ dpc # "off"
        /\ Keyboard \in present
        /\ LET d == Keyboard IN
            /\ CASE value = 1 -> key \notin held /\ held' = held \cup {key}
                 [] value = 0 -> key \in held /\ held' = held \ {key}
                 [] OTHER -> key \in held /\ UNCHANGED held
            /\ dpc' = CASE dpc = d -> IF stop_flag THEN "exited" ELSE "run"
                       [] OTHER -> dpc
            /\ IF d \in devices \ stale /\ dpc' = "run"
               THEN CASE value = 1 -> KeyDown(key)
                      [] value = 0 ->
                            /\ KeyUp(key)
                            /\ run' = [(IF held' = {} /\ pressed_keys' = {}
                                        THEN NewRun ELSE Spoilt)
                                       EXCEPT !.released = @ \/ key \in target_keys,
                                              !.sent = IF shortcut_rx' # shortcut_rx
                                                       THEN "End" ELSE @]
                      [] OTHER ->
                            UNCHANGED <<pressed_keys, combination_active,
                                        last_trigger, shortcut_rx, run>>
               ELSE /\ UNCHANGED <<pressed_keys, combination_active,
                                   last_trigger, shortcut_rx>>
                    /\ run' = IF value = 2 THEN run ELSE Spoilt
        /\ UNCHANGED <<kind, devices, stale, fallback_rescan_enabled,
                       last_fallback_rescan, rescan_rx, present, monitor>>
        /\ UNCHANGED <<orchVars, cfgVars, stopVars, audioVars>>

\* the same while the channel holds fewer than MaxPending events
KeyEvent ==
    /\ Len(shortcut_rx) < MaxPending
    /\ KeyHandled

\* the errors fetch_events returns: the empty read of a non-blocking
\* handle, the errnos of a handle whose node is gone, and another I/O error
ErrorKinds == {"WouldBlock", "ENODEV", "EBADF", "ENXIO", "EIO"}
FetchErrors(d) ==
    IF d \in stale THEN {"ENODEV", "EBADF", "ENXIO"} ELSE {"WouldBlock", "EIO"}

\* shortcuts.rs:240-247 and 255-258: the monitored set after the read of d
\* has failed with err
devices_after_error(d, err) ==
    IF err # "WouldBlock" /\ is_device_disconnect_error(err)
    THEN devices \ {d}
    ELSE devices

\* shortcuts.rs:239-265: fetch_events of device d fails with err
fetch_error(d, err) ==
    /\ IF devices_after_error(d, err) # devices
       THEN /\ devices' = devices_after_error(d, err)
            /\ stale' = stale \ {d}
            /\ pressed_keys' = clear(pressed_keys)
            /\ combination_active' = FALSE
            /\ run' = [Spoilt EXCEPT !.readded = @ /\ Keyboard \in devices']
       ELSE UNCHANGED <<devices, stale, pressed_keys, combination_active, run>>
    /\ UNCHANGED <<kind, dpc, last_trigger, fallback_rescan_enabled,
                   last_fallback_rescan, rescan_rx, envVars, shortcut_rx>>
    /\ UNCHANGED <<orchVars, cfgVars, stopVars, audioVars>>

ReadError ==
    \E d \in devices :
        \E err \in FetchErrors(d) :
            /\ dpc = "run"
            /\ fetch_error(d, err)

\* shortcuts.rs:267-276 with refresh_devices (425-444)
FallbackRescan ==
    /\ dpc = "run"
    /\ fallback_rescan_enabled
    /\ now - last_fallback_rescan >= fallback_rescan_interval
    /\ last_fallback_rescan' = now
    /\ pressed_keys' = clear(pressed_keys)
    /\ combination_active' = FALSE
    /\ devices' = find_keyboard_devices
    /\ stale' = {}
    /\ run' = [Spoilt EXCEPT !.readded = FALSE]
    /\ UNCHANGED <<kind, dpc, last_trigger, fallback_rescan_enabled, rescan_rx,
                   envVars, shortcut_rx>>
    /\ UNCHANGED <<orchVars, cfgVars, stopVars, audioVars>>

\* shortcuts.rs:515-557 and 96-101: the watcher thread starts listening, or
\* fails to and reports MonitorUnavailable
MonitorStart ==
    /\ dpc = "run"
    /\ monitor = "starting"
    /\ \/ monitor' = "watching" /\ UNCHANGED rescan_rx
       \/ /\ monitor' = "unavailable"
          /\ rescan_rx' = Append(rescan_rx, MonitorUnavailable)
    /\ UNCHANGED <<kind, dpc, devices, stale, pressed_keys, combination_active,
                   last_trigger, fallback_rescan_enabled, last_fallback_rescan,
                   present, held, run, shortcut_rx>>
    /\ UNCHANGED <<orchVars, cfgVars, stopVars, audioVars>>

\* a device node appears, disappears or changes; the watcher, when it
\* listens, sends the udev event (shortcuts.rs:539-549)
HotPlug ==
    \E path \in Paths, type \in {"Added", "Removed", "Changed"} :
        /\ dpc = "run"
        /\ Len(rescan_rx) < MaxDeviceEvents
        /\ CASE type = "Added" -> path \notin present /\ present' = present \cup {path}
             [] type = "Removed" -> path \in present /\ present' = present \ {path}
             [] OTHER -> path \in present /\ UNCHANGED present
        /\ held' = IF type = "Removed" /\ path = Keyboard THEN {} ELSE held
        /\ rescan_rx' = IF monitor = "watching"
                        THEN Append(rescan_rx, InputDeviceEvent(type, path))
                        ELSE rescan_rx
        /\ stale' = IF type = "Removed" THEN stale \cup ({path} \cap devices) ELSE stale
        /\ run' = IF type = "Removed" /\ path = Keyboard THEN Spoilt ELSE run
        /\ UNCHANGED <<kind, dpc, devices, pressed_keys, combination_active,
                       last_trigger, fallback_rescan_enabled, last_fallback_rescan,
                       monitor, shortcut_rx>>
        /\ UNCHANGED <<orchVars, cfgVars, stopVars, audioVars>>

\* debounce_duration passes: every Instant the loop can still compare lies
\* that much further back.  A Hold loop never reads last_trigger (171-172),
\* and last_fallback_rescan is overwritten (124) before it is first read.
Tick ==
    /\ dpc = "run"
    /\ last_trigger' = IF kind = "Press" THEN Age(last_trigger) ELSE last_trigger
    /\ last_fallback_rescan' = IF fallback_rescan_enabled
                               THEN Age(last_fallback_rescan)
                               ELSE last_fallback_rescan
    /\ run' = IF run.clean /\ run.log = <<>>
              THEN [run EXCEPT !.armed = kind = "Hold" \/ now - last_trigger' > debounce_duration]
              ELSE run
    /\ UNCHANGED <<kind, dpc, devices, stale, pressed_keys, combination_active,
                   fallback_rescan_enabled, rescan_rx, present, held, monitor,
                   shortcut_rx>>
    /\ UNCHANGED <<orchVars, cfgVars, stopVars, audioVars>>

\* the receiving end takes an event off the channel
Receive ==
    /\ shortcut_rx # <<>>
    /\ shortcut_rx' = Tail(shortcut_rx)
    /\ UNCHANGED <<orchVars, cfgVars, detVars, audioVars>>

\* ShortcutListener::spawn (app.rs:64-91), GlobalShortcuts::new (57-84) and
\* the locals of run (87-94)
DetOpened(k) ==
    /\ stop_flag = FALSE
    /\ handle = "Some"
    /\ stopper = "idle"
    /\ kind = k
    /\ dpc = "run"
    /\ present = Paths
    /\ devices = find_keyboard_devices
    /\ stale = {}
    /\ pressed_keys = {}
    /\ combination_active = FALSE
    /\ last_trigger = now - initial_trigger_age
    /\ fallback_rescan_enabled = FALSE
    /\ last_fallback_rescan = now
    /\ rescan_rx = <<>>
    /\ held = {}
    /\ monitor = "starting"
    /\ run = [log |-> <<>>, starts |-> 0, clean |-> TRUE, armed |-> TRUE,
              released |-> FALSE, sent |-> "None", readded |-> FALSE]

\* every handle was put in non-blocking mode (set_device_nonblocking, 567-590)
DetStarted(k) == DetOpened(k) /\ blocking = {}

InitDet ==
    /\ InitOrch
    /\ InitCfg
    /\ current_config = InitialConfig
    /\ \E k \in {"Press", "Hold"} : DetStarted(k)
    /\ AudioOff

NextDet ==
    \/ DeviceEvent
    \/ KeyEvent
    \/ ReadError
    \/ FallbackRescan
    \/ MonitorStart
    \/ HotPlug
    \/ Tick
    \/ Receive

SpecDet == InitDet /\ [][NextDet]_vars

----------------------------------------------------------------------------
(* The event loop together with the Hold listener it has spawned *)

HoldConfig == Config("SUPER+ALT+R", "CTRL+SHIFT+V", 0, "WhisperCpp", FALSE, TRUE)

\* app.rs:276-283: run has spawned the listeners and waits in select!; the
\* Hold thread is at the top of its loop
InitSys ==
    /\ pc = "select"
    /\ InitApp
    /\ current_config = HoldConfig
    /\ config_rx = Watch(current_config, FALSE, FALSE)
    /\ preferred_device = current_config.audio_device
    /\ transcriber = Backend(current_config)
    /\ fast_vad = IF fast_vad_allowed(current_config) THEN SomeVad ELSE NoVad
    /\ press_listener = ensure_listener(NoListener, "Press", current_config.press)
    /\ hold_listener = ensure_listener(NoListener, "Hold", current_config.hold)
    /\ threads = [Press |-> spawn(NoThreads), Hold |-> spawn(NoThreads)]
    /\ DetStarted("Hold")
    /\ AudioOff

NextSys ==
    \/ HandleShortcut
    \/ PipelineComplete
    \/ AudioCallback
    \/ DeviceEvent
    \/ KeyEvent
    \/ ReadError
    \/ FallbackRescan
    \/ MonitorStart
    \/ HotPlug
    \/ Tick

\* the event loop and the detector's loop keep running; the user and the
\* hardware owe nothing
FairSys ==
    /\ WF_vars(HandleShortcut)
    /\ WF_vars(PipelineComplete)
    /\ WF_vars(AudioCallback)
    /\ WF_vars(DeviceEvent)
    /\ WF_vars(ReadError)
    /\ WF_vars(FallbackRescan)
    /\ WF_vars(MonitorStart)
    /\ WF_vars(Tick)

SpecSys == InitSys /\ [][NextSys]_vars /\ FairSys

----------------------------------------------------------------------------
(* The event loop and its Hold listener with a keyboard that is typed on *)
(* for as long as the pipeline runs *)

\* shortcuts.rs:148-237 while the event loop is inside process_audio
\* (app.rs:567-575) and receives nothing
KeyWhileBusy ==
    /\ pc = "pipeline"
    /\ KeyHandled

NextChan ==
    \/ HandleShortcut
    \/ PipelineComplete
    \/ AudioCallback
    \/ KeyEvent
    \/ KeyWhileBusy

SpecChan == InitSys /\ [][NextChan]_vars

----------------------------------------------------------------------------
(* Stopping a listener: ShortcutListener::stop and the loop's stop checks *)

\* app.rs:104-111, first half: stop() stores the flag and takes the handle;
\* with a handle it goes on to join, without one (a listener stopped before:
\* the call Drop makes after stop or restart) it returns at once
StopListener ==
    /\ dpc # "off"
    /\ stopper # "join"
    /\ stop_flag' = TRUE
    /\ IF handle = "Some"
       THEN handle' = "None" /\ stopper' = "join"
       ELSE UNCHANGED handle /\ stopper' = "returned"
    /\ UNCHANGED <<kind, dpc, devices, stale, pressed_keys, combination_active,
                   last_trigger, fallback_rescan_enabled, last_fallback_rescan,
                   rescan_rx, present, held, monitor, run, blocking>>
    /\ UNCHANGED <<orchVars, cfgVars, shortcut_rx, audioVars>>

\* shortcuts.rs:113-116, 144-146, 150-152, 248-250: the loop, not parked in
\* a read, loads the flag and breaks out; run returns and the thread ends
ObserveStop ==
    /\ dpc = "run"
    /\ stop_flag
    /\ dpc' = "exited"
    /\ UNCHANGED <<kind, devices, stale, pressed_keys, combination_active,
                   last_trigger, fallback_rescan_enabled, last_fallback_rescan,
                   rescan_rx, present, held, monitor, run, stopVars>>
    /\ UNCHANGED <<orchVars, cfgVars, shortcut_rx, audioVars>>

\* shortcuts.rs:144-147: the flag is not set, and fetch_events on a handle
\* left in blocking mode, with no event to read, does not return
BlockingRead ==
    \E d \in (devices \cap blocking) \ stale :
        /\ dpc = "run"
        /\ ~stop_flag
        /\ dpc' = d
        /\ UNCHANGED <<kind, devices, stale, pressed_keys, combination_active,
                       last_trigger, fallback_rescan_enabled,
                       last_fallback_rescan, rescan_rx, present, held, monitor,
                       run, stopVars>>
        /\ UNCHANGED <<orchVars, cfgVars, shortcut_rx, audioVars>>

\* what handle.join() waits for (preceded by a faulty variant: a stop that
\* does not wait for the thread)
ThreadFinished_Detached == TRUE
ThreadFinished == dpc = "exited"

\* app.rs:106-110: join returns once the thread has ended, and stop returns
JoinReturns ==
    /\ stopper = "join"
    /\ ThreadFinished
    /\ stopper' = "returned"
    /\ UNCHANGED <<kind, dpc, devices, stale, pressed_keys, combination_active,
                   last_trigger, fallback_rescan_enabled, last_fallback_rescan,
                   rescan_rx, present, held, monitor, run, stop_flag, handle,
                   blocking>>
    /\ UNCHANGED <<orchVars, cfgVars, shortcut_rx, audioVars>>

\* a spawned Hold listener; set_device_nonblocking may have failed on any of
\* the handles find_keyboard_devices opened (392-394: the failure is logged
\* and the handle is kept)
InitStop ==
    /\ InitOrch
    /\ InitCfg
    /\ current_config = InitialConfig
    /\ DetOpened("Hold")
    /\ blocking \in SUBSET devices
    /\ AudioOff

NextStop ==
    \/ StopListener
    \/ ObserveStop
    \/ BlockingRead
    \/ JoinReturns
    \/ KeyEvent
    \/ Receive

\* the detector thread and the thread inside stop() keep running
FairStop ==
    /\ WF_vars(ObserveStop)
    /\ WF_vars(JoinReturns)

SpecStop == InitStop /\ [][NextStop]_vars /\ FairStop

----------------------------------------------------------------------------
(* AudioCapture::start_recording: choosing and opening the input device *)

\* device names, as sequences of characters; U+00C9 and U+00E9 are the
\* upper- and lower-case e with acute accent
DeviceNames == { <<"M", "i", "c">>, <<"m", "I", "C">>, <<"U+00C9">>, <<"U+00E9">> }

\* u8::to_ascii_lowercase on the characters of the names: A-Z fold, any
\* other character, non-ASCII letters included, is kept
to_ascii_lowercase(c) ==
    CASE c = "C" -> "c"
      [] c = "I" -> "i"
      [] c = "M" -> "m"
      [] OTHER -> c

\* str::eq_ignore_ascii_case (preceded by a faulty variant: an exact
\* comparison)
eq_ignore_ascii_case_Exact(a, b) == a = b
eq_ignore_ascii_case(a, b) ==
    /\ Len(a) = Len(b)
    /\ \A i \in 1..Len(a) : to_ascii_lowercase(a[i]) = to_ascii_lowercase(b[i])

\* Option<usize>::None
NoIndex == -1

\* DeviceSelection, and the Err a selection function returns
Selection(device, source) ==
    [ok |-> TRUE, device |-> device, source |-> source, err |-> "None"]
SelectionErr(err) ==
    [ok |-> FALSE, device |-> NoDevice, source |-> "None", err |-> err]

\* capture.rs:268-319.  enumerable: host.input_devices() returns Ok when it
\* is called (271-275 with a preferred index, 301-303 without a default).
select_input_device(preferred_index, enumerable) ==
    IF preferred_index # NoIndex /\ ~enumerable
    THEN SelectionErr("DevicesError")
    ELSE IF preferred_index # NoIndex
            /\ preferred_index + 1 \in DOMAIN input_devices
    THEN Selection(input_devices[preferred_index + 1], "Preferred")
    ELSE IF default_input_device # NoDevice
    THEN Selection(default_input_device, "Default")
    ELSE IF ~enumerable
    THEN SelectionErr("DevicesError")
    ELSE IF input_devices # <<>>
    THEN Selection(Head(input_devices), "Fallback")
    ELSE SelectionErr("NoInputDevice")

\* the positions of the enumerated devices select_fallback_device does not
\* skip (capture.rs:327-334)
Alternates(exclude_name) ==
    { i \in DOMAIN input_devices :
        ~eq_ignore_ascii_case(exclude_name, input_devices[i].name) }

Least(S) == CHOOSE i \in S : \A j \in S : i <= j

\* capture.rs:321-344
select_fallback_device(exclude_name, enumerable) ==
    IF ~enumerable
    THEN SelectionErr("DevicesError")
    ELSE IF Alternates(exclude_name) # {}
    THEN Selection(input_devices[Least(Alternates(exclude_name))], "Fallback")
    ELSE SelectionErr("NoAlternate")

\* capture.rs:346-411: build_input_stream and play succeed
Opens(selection) == selection.device.id \notin unopenable

\* what start_recording retries after (capture.rs:145; preceded by a faulty
\* variant: a failed fallback selection is retried too)
Retries_Always(failed_source) == TRUE
Retries(failed_source) == failed_source # "Fallback"

\* capture.rs:140-150: the device is selected and the first attempt made
SelectAndTry ==
    \E enumerable \in BOOLEAN :
        LET selection == select_input_device(preferred_device, enumerable) IN
        /\ capture.pc = "idle"
        /\ IF ~selection.ok
           THEN /\ capture' = [capture EXCEPT !.pc = "done", !.result = selection.err]
                /\ UNCHANGED attempts
           ELSE /\ attempts' = Append(attempts, selection)
                /\ capture' =
                     IF Opens(selection)
                     THEN [capture EXCEPT !.pc = "done", !.result = "Session"]
                     ELSE IF Retries(selection.source)
                     THEN [capture EXCEPT !.pc = "fallback",
                                          !.failed_name = selection.device.name]
                     ELSE [capture EXCEPT !.pc = "done", !.result = "OpenErr"]
        /\ UNCHANGED <<input_devices, default_input_device, unopenable>>
        /\ UNCHANGED <<orchVars, cfgVars, detVars, shortcut_rx, sessionVars,
                       resampleVars, lockVars>>

\* capture.rs:151-161: the fallback device is selected and tried
TryFallback ==
    \E enumerable \in BOOLEAN :
        LET fallback == select_fallback_device(capture.failed_name, enumerable) IN
        /\ capture.pc = "fallback"
        /\ IF ~fallback.ok
           THEN /\ capture' = [capture EXCEPT !.pc = "done", !.result = fallback.err]
                /\ UNCHANGED attempts
           ELSE /\ attempts' = Append(attempts, fallback)
                /\ capture' = [capture EXCEPT
                                  !.pc = "done",
                                  !.result = IF Opens(fallback) THEN "Session"
                                             ELSE "FallbackOpenErr"]
        /\ UNCHANGED <<input_devices, default_input_device, unopenable>>
        /\ UNCHANGED <<orchVars, cfgVars, detVars, shortcut_rx, sessionVars,
                       resampleVars, lockVars>>

\* an input device is unplugged while start_recording runs
Unplug ==
    \E i \in DOMAIN input_devices :
        /\ capture.pc \in {"idle", "fallback"}
        /\ input_devices' = [j \in 1..(Len(input_devices) - 1) |->
                                IF j < i THEN input_devices[j]
                                ELSE input_devices[j + 1]]
        /\ default_input_device' =
              IF default_input_device = input_devices[i] THEN NoDevice
              ELSE default_input_device
        /\ UNCHANGED <<unopenable, attempts, capture>>
        /\ UNCHANGED <<orchVars, cfgVars, detVars, shortcut_rx, sessionVars,
                       resampleVars, lockVars>>

\* the enumerations the host can give: up to MaxInputDevices devices
Enumerations ==
    UNION { [1..n -> DeviceNames] : n \in 0..MaxInputDevices }

\* AudioCapture::new (capture.rs:101-124) with any preferred index, on any
\* host; the default device is one of the enumerated ones, a device of its
\* own, or missing
InitCapture ==
    /\ InitOrch
    /\ current_config = InitialConfig
    /\ config_rx = Watch(current_config, FALSE, FALSE)
    /\ press_listener = NoListener
    /\ hold_listener = NoListener
    /\ threads = [Press |-> NoThreads, Hold |-> NoThreads]
    /\ preferred_device \in {NoIndex} \cup (0..MaxInputDevices)
    /\ transcriber = Backend(current_config)
    /\ fast_vad = NoVad
    /\ DetOff
    /\ \E names \in Enumerations :
        /\ input_devices = [i \in DOMAIN names |-> [id |-> i, name |-> names[i]]]
        /\ default_input_device \in
              {NoDevice, [id |-> MaxInputDevices + 1, name |-> <<"M", "i", "c">>]}
              \cup {input_devices[i] : i \in DOMAIN names}
    /\ unopenable \in SUBSET (1..(MaxInputDevices + 1))
    /\ attempts = <<>>
    /\ capture = [pc |-> "idle", result |-> "None", failed_name |-> <<>>]
    /\ SessionOff
    /\ ResampleOff
    /\ LocksOff

NextCapture ==
    \/ SelectAndTry
    \/ TryFallback
    \/ Unplug

SpecCapture == InitCapture /\ [][NextCapture]_vars

----------------------------------------------------------------------------
(* resample_audio (app.rs:28-60) *)

\* an integer division by zero panics
Panic == -1
Div(a, b) == IF b = 0 THEN Panic ELSE a \div b

\* app.rs:29 (preceded by a faulty variant: the rates are not looked at)
ReturnsEmpty_LengthOnly(src_len, src_rate, dst_rate) == src_len = 0
ReturnsEmpty(src_len, src_rate, dst_rate) ==
    src_len = 0 \/ src_rate = 0 \/ dst_rate = 0

\* app.rs:41 (preceded by a faulty variant: truncated, not rounded)
output_len_Truncated(src_len, src_rate, dst_rate) ==
    Div(src_len * dst_rate, src_rate)
output_len(src_len, src_rate, dst_rate) ==
    Div(src_len * dst_rate + src_rate \div 2, src_rate)

\* the number of samples resample_audio returns; Panic if it panics
resample_len(src_len, src_rate, dst_rate) ==
    IF ReturnsEmpty(src_len, src_rate, dst_rate) THEN 0
    ELSE IF src_rate = dst_rate THEN src_len
    ELSE output_len(src_len, src_rate, dst_rate)

Min(a, b) == IF a <= b THEN a ELSE b

\* app.rs:46-58: the sample at output position n, interpolated between the
\* source samples on either side of n * src_rate / dst_rate, both indices
\* clamped to the last one.  Amplitudes are fixed-point integers; the
\* product with the fraction is rounded down.
interpolate(samples, n, src_rate, dst_rate) ==
    LET last_index == Len(samples) - 1
        idx == (n * src_rate) \div dst_rate
        frac == (n * src_rate) % dst_rate
        left == samples[Min(idx, last_index) + 1]
        right == samples[Min(idx + 1, last_index) + 1]
    IN  left + ((right - left) * frac) \div dst_rate

Resampled(samples) == [returned |-> TRUE, panicked |-> FALSE, samples |-> samples]
Panicked == [returned |-> FALSE, panicked |-> TRUE, samples |-> <<>>]

\* app.rs:33, samples.to_vec() (preceded by a faulty variant: the last
\* sample is left out of the copy)
to_vec_Short(samples) == SubSeq(samples, 1, Len(samples) - 1)
to_vec(samples) == samples

\* app.rs:28-60
resample_audio(samples, src_rate, dst_rate) ==
    IF ReturnsEmpty(Len(samples), src_rate, dst_rate) THEN Resampled(<<>>)
    ELSE IF src_rate = dst_rate THEN Resampled(to_vec(samples))
    ELSE LET n == output_len(Len(samples), src_rate, dst_rate) IN
         IF n = Panic THEN Panicked
         ELSE IF n = 0 THEN Resampled(<<>>)
         ELSE Resampled([k \in 1..n |->
                            interpolate(samples, k - 1, src_rate, dst_rate)])

\* the arguments resample_audio is checked on
SampleValues == {-4, 0, 4}
Rates == {0, 8000, 16000, 48000}
SampleSeqs == UNION { [1..n -> SampleValues] : n \in 0..MaxLen }

\* one call of resample_audio
Resample ==
    /\ ~resample_out.returned
    /\ ~resample_out.panicked
    /\ resample_out' = resample_audio(resample_in.samples, resample_in.src_rate,
                                      resample_in.dst_rate)
    /\ UNCHANGED resample_in
    /\ UNCHANGED <<orchVars, cfgVars, detVars, shortcut_rx, hostVars, sessionVars,
                   lockVars>>

\* the caller takes the result and calls again with other arguments
NextCall ==
    \E samples \in SampleSeqs, src_rate \in Rates, dst_rate \in Rates :
        /\ resample_out.returned
        /\ resample_in' = [samples |-> samples, src_rate |-> src_rate,
                           dst_rate |-> dst_rate, origin |-> <<>>]
        /\ resample_out' = NoOutput
        /\ UNCHANGED <<orchVars, cfgVars, detVars, shortcut_rx, hostVars, sessionVars,
                   lockVars>>

\* the caller passes the result back through resample_audio, from the rate
\* it was brought to, to the rate it came from; origin keeps the number of
\* samples it started with
ResampleBack ==
    /\ resample_out.returned
    /\ resample_in.origin = <<>>
    /\ resample_in.src_rate # resample_in.dst_rate
    /\ resample_in' = [samples |-> resample_out.samples,
                       src_rate |-> resample_in.dst_rate,
                       dst_rate |-> resample_in.src_rate,
                       origin |-> <<Len(resample_in.samples)>>]
    /\ resample_out' = NoOutput
    /\ UNCHANGED <<orchVars, cfgVars, detVars, shortcut_rx, hostVars, sessionVars,
                   lockVars>>

InitResample ==
    /\ InitOrch
    /\ InitCfg
    /\ current_config = InitialConfig
    /\ DetOff
    /\ HostOff
    /\ SessionOff
    /\ LocksOff
    /\ resample_in \in [samples : SampleSeqs, src_rate : Rates, dst_rate : Rates,
                        origin : {<<>>}]
    /\ resample_out = NoOutput

NextResample == Resample \/ NextCall \/ ResampleBack

SpecResample == InitResample /\ [][NextResample]_vars

----------------------------------------------------------------------------
(* One recording session: the stream's callbacks, RecordingSession::stop and
   process_audio.  Time is in milliseconds, audio is reduced to its number
   of samples. *)

\* SampleRateTracker::new, capture.rs:47-56
new_tracker(requested, channel_count) ==
    [requested |-> requested, channels |-> channel_count,
     last_capture |-> NoInstant, accumulated_frames |-> 0,
     accumulated_duration |-> 0, measured |-> NoRate]

\* capture.rs:71, (frames as f64 / secs).round(): to the nearest integer,
\* halves away from zero (preceded by a faulty variant: frames per millisecond)
rate_of_PerMs(frames, ms) == (2 * frames + ms) \div (2 * ms)
rate_of(frames, ms) == (2 * frames * 1000 + ms) \div (2 * ms)

\* capture.rs:68
WindowComplete(ms) == ms >= window_ms

\* capture.rs:70 (preceded by a faulty variant: a window without frames is
\* rated too)
Rated_Always(frames, ms) == ms > 0
Rated(frames, ms) == ms > 0 /\ frames > 0

\* StreamInstant::duration_since (capture.rs:62): None if instant is earlier
Timed(t, instant) == t.last_capture # NoInstant /\ instant >= t.last_capture

\* SampleRateTracker::update, capture.rs:58-81
update(t, data_len, instant) ==
    IF ~Timed(t, instant) THEN [t EXCEPT !.last_capture = instant]
    ELSE LET frames == data_len \div Max(t.channels, 1)
             accumulated_frames == t.accumulated_frames + frames
             accumulated_duration ==
                 t.accumulated_duration + (instant - t.last_capture)
         IN  IF WindowComplete(accumulated_duration)
             THEN [t EXCEPT !.last_capture = instant,
                            !.accumulated_frames = 0,
                            !.accumulated_duration = 0,
                            !.measured =
                                IF Rated(accumulated_frames, accumulated_duration)
                                THEN rate_of(accumulated_frames,
                                             accumulated_duration)
                                ELSE t.measured]
             ELSE [t EXCEPT !.last_capture = instant,
                            !.accumulated_frames = accumulated_frames,
                            !.accumulated_duration = accumulated_duration]

\* SampleRateTracker::sample_rate, capture.rs:83-85 (preceded by a faulty
\* variant: no fallback to the requested rate)
sample_rate_Unmeasured(t) == t.measured
sample_rate(t) == IF t.measured # NoRate THEN t.measured ELSE t.requested

\* CapturedAudio::is_empty, capture.rs:27-29
is_empty(a) == a.samples = 0

\* what the callbacks of the session have delivered, after one more
Fed(f, t, data_len, instant) ==
    LET timed == Timed(t, instant)
        delta == instant - t.last_capture
        frames == t.accumulated_frames + data_len \div Max(t.channels, 1)
        ms == t.accumulated_duration + delta
        completes == timed /\ ms >= window_ms
    IN  [callbacks |-> f.callbacks + 1,
         frames |-> f.frames + data_len,
         first |-> IF f.first = NoInstant THEN instant ELSE f.first,
         ordered |-> f.ordered /\ (t.last_capture # NoInstant => timed),
         counted |-> IF timed THEN f.counted + data_len ELSE f.counted,
         elapsed |-> IF timed THEN f.elapsed + delta ELSE f.elapsed,
         steady |-> f.steady /\ (t.last_capture # NoInstant =>
                                    timed /\ data_len = 16 * delta),
         window |-> IF completes THEN [frames |-> frames, ms |-> ms]
                    ELSE f.window,
         rated |-> IF completes /\ frames > 0 THEN [frames |-> frames, ms |-> ms]
                   ELSE f.rated,
         windows |-> IF completes THEN 1 ELSE f.windows]

\* the capture timestamps and the sample counts of the callbacks
Instants == {0, 50, 1000, 4000}
DataLens == {0, 1, 800, 8000, 15200, 16000}

\* capture.rs:366-380: the stream's data callback
InputCallback ==
    \E data_len \in DataLens, capture_instant \in Instants :
        /\ stage = "recording"
        /\ fed.callbacks < MaxCallbacks
        /\ sample_rate_tracker' =
               update(sample_rate_tracker, data_len, capture_instant)
        /\ recording_session' = Session(recording_session.samples + data_len)
        /\ fed' = Fed(fed, sample_rate_tracker, data_len, capture_instant)
        /\ UNCHANGED <<pc, recording_trigger, is_processing, status_recording,
                       open_streams, peak_streams, result, last>>
        /\ UNCHANGED <<captured, audio, stage, calls>>
        /\ UNCHANGED <<cfgVars, detVars, shortcut_rx, hostVars, resampleVars,
                       lockVars>>

\* RecordingSession::stop, capture.rs:202-238
session_stop(session, t) == CapturedAudio(session.samples, sample_rate(t))

\* app.rs:542-582 up to the await of process_audio, with the audio that
\* RecordingSession::stop returns: stop_recording clears the trigger exactly
\* when session.stop() has returned Ok
SessionStop ==
    /\ stage = "recording"
    /\ pc = "select"
    /\ stop_recording
    /\ LET stopped == recording_trigger' = "None"
           captured_audio == session_stop(recording_session, sample_rate_tracker)
       IN  /\ captured' = IF stopped THEN captured_audio ELSE NoAudio
           /\ audio' = captured'
           /\ stage' = IF pc' = "pipeline" THEN "preprocess" ELSE "done"
    /\ sample_rate_tracker' = NoTracker
    /\ fed' = NoFeed
    /\ UNCHANGED <<last, calls>>
    /\ UNCHANGED <<cfgVars, detVars, shortcut_rx, hostVars, resampleVars, lockVars>>

\* one invocation of a collaborator: the samples it was given, the samples
\* or the text it returned and whether it returned Ok
Call(name, given, len, text, ok) ==
    [call |-> name, given |-> given, len |-> len, text |-> text, ok |-> ok]

\* app.rs:567-575: process_audio returns with this outcome
PipelineEnds(outcome) ==
    /\ stage' = "done"
    /\ last' = [last EXCEPT !.pipeline = outcome]
    /\ is_processing' = is_processing_after(outcome)
    /\ pc' = "select"
    /\ result' = "Ok"

PipelineGoesOn(next_stage) ==
    /\ stage' = next_stage
    /\ UNCHANGED <<last, is_processing, pc, result>>

\* app.rs:606 and 678 (preceded by a faulty variant: never taken as silence)
SilenceOnly_Never(trimmed_len) == FALSE
SilenceOnly(trimmed_len) == trimmed_len = 0

\* what FastVad::trim may keep of its input: nothing, one sample, all
Trimmed(given) == {0, Min(1, given), given}

\* preprocess_audio (app.rs:584-653) and the two early returns that follow
\* it in process_audio (661-687)
Preprocess ==
    /\ stage = "preprocess"
    /\ pc = "pipeline"
    /\ IF fast_vad = SomeVad
       THEN \E supported \in BOOLEAN, configured \in BOOLEAN,
               trim_ok \in BOOLEAN :
            LET input == IF supported THEN audio
                         ELSE CapturedAudio(
                                  resample_len(audio.samples, audio.sample_rate,
                                               transcription_rate),
                                  transcription_rate)
                resampled == IF supported THEN <<>>
                             ELSE <<Call("resample", audio.samples,
                                         input.samples, <<>>, TRUE)>>
            IN  IF ~configured
                THEN /\ calls' = calls \o resampled \o
                         <<Call("set_sample_rate", 0, 0, <<>>, FALSE)>>
                     /\ audio' = input
                     /\ PipelineEnds("vad_err")
                ELSE IF ~trim_ok
                THEN /\ calls' = calls \o resampled \o
                         <<Call("trim", input.samples, 0, <<>>, FALSE)>>
                     /\ audio' = input
                     /\ PipelineEnds("vad_err")
                ELSE \E trimmed_len \in Trimmed(input.samples) :
                     /\ calls' = calls \o resampled \o
                            <<Call("trim", input.samples, trimmed_len, <<>>, TRUE)>>
                     /\ audio' = CapturedAudio(trimmed_len, input.sample_rate)
                     /\ IF SilenceOnly(trimmed_len)
                        THEN PipelineEnds("silence")
                        ELSE PipelineGoesOn("transcribe")
       ELSE /\ UNCHANGED <<calls, audio>>
            /\ IF SilenceOnly(audio.samples)
               THEN PipelineEnds("silence")
               ELSE PipelineGoesOn("transcribe")
    /\ UNCHANGED <<recording_session, recording_trigger, status_recording,
                   open_streams, peak_streams>>
    /\ UNCHANGED <<sample_rate_tracker, fed, captured>>
    /\ UNCHANGED <<cfgVars, detVars, shortcut_rx, hostVars, resampleVars, lockVars>>

\* the characters of a transcription: space, line feed, no-break space (all
\* White_Space), a zero width space (not White_Space) and two letters
Whitespace == {"SP", "LF", "U+00A0"}
Texts ==
    { <<>>, <<"SP">>, <<"LF", "U+00A0">>, <<"U+200B">>, <<"h", "i">>,
      <<"SP", "h", "i", "LF">>, <<"h", "SP", "i">> }

\* str::trim
RECURSIVE trim_start(_)
trim_start(text) ==
    IF text # <<>> /\ Head(text) \in Whitespace THEN trim_start(Tail(text))
    ELSE text

RECURSIVE trim_end(_)
trim_end(text) ==
    IF text # <<>> /\ text[Len(text)] \in Whitespace
    THEN trim_end(SubSeq(text, 1, Len(text) - 1))
    ELSE text

trim(text) == trim_end(trim_start(text))

\* app.rs:726 (preceded by a faulty variant: the text is not trimmed)
NothingToInject_Untrimmed(text) == text = <<>>
NothingToInject(text) == trim(text) = <<>>

\* app.rs:705-735: the audio is brought to 16 kHz and transcribed
Transcribe ==
    /\ stage = "transcribe"
    /\ pc = "pipeline"
    /\ LET sent == IF audio.sample_rate = transcription_rate THEN audio.samples
                   ELSE resample_len(audio.samples, audio.sample_rate,
                                     transcription_rate)
           resampled == IF audio.sample_rate = transcription_rate THEN <<>>
                        ELSE <<Call("resample", audio.samples, sent, <<>>, TRUE)>>
       IN  /\ audio' = CapturedAudio(sent, transcription_rate)
           /\ \/ /\ calls' = calls \o resampled \o
                        <<Call("transcribe", sent, 0, <<>>, FALSE)>>
                 /\ PipelineEnds("transcribe_err")
              \/ \E text \in Texts :
                 /\ calls' = calls \o resampled \o
                        <<Call("transcribe", sent, 0, text, TRUE)>>
                 /\ IF NothingToInject(text)
                    THEN PipelineEnds("empty_text")
                    ELSE PipelineGoesOn("inject")
    /\ UNCHANGED <<recording_session, recording_trigger, status_recording,
                   open_streams, peak_streams>>
    /\ UNCHANGED <<sample_rate_tracker, fed, captured>>
    /\ UNCHANGED <<cfgVars, detVars, shortcut_rx, hostVars, resampleVars, lockVars>>

\* app.rs:739-761: the text of the transcription is injected
Inject ==
    /\ stage = "inject"
    /\ pc = "pipeline"
    /\ \E ok \in BOOLEAN :
        /\ calls' = Append(calls, Call("inject_text", 0, 0,
                                       calls[Len(calls)].text, ok))
        /\ PipelineEnds(IF ok THEN "injected" ELSE "inject_err")
    /\ UNCHANGED <<recording_session, recording_trigger, status_recording,
                   open_streams, peak_streams>>
    /\ UNCHANGED <<sample_rate_tracker, fed, captured, audio>>
    /\ UNCHANGED <<cfgVars, detVars, shortcut_rx, hostVars, resampleVars, lockVars>>

\* a session has just been started on a Press shortcut (app.rs:513-540)
InitTrack ==
    /\ pc = "select"
    /\ recording_session = Session(0)
    /\ recording_trigger = "PressShortcut"
    /\ is_processing = FALSE
    /\ shortcut_rx = <<>>
    /\ status_recording = TRUE
    /\ open_streams = 1
    /\ peak_streams = 1
    /\ result = "Ok"
    /\ last = [ev |-> ShortcutEvent("Press", "Start", FALSE),
               pre_session |-> NoSession, pre_trigger |-> "None",
               after_failure |-> FALSE, pipeline |-> "none"]
    /\ current_config = InitialConfig
    /\ config_rx = Watch(current_config, FALSE, FALSE)
    /\ press_listener = NoListener
    /\ hold_listener = NoListener
    /\ threads = [Press |-> NoThreads, Hold |-> NoThreads]
    /\ preferred_device = NoIndex
    /\ transcriber = Backend(current_config)
    /\ fast_vad \in {NoVad, SomeVad}
    /\ DetOff
    /\ HostOff
    /\ ResampleOff
    /\ LocksOff
    /\ sample_rate_tracker = new_tracker(requested_sample_rate, config_channels)
    /\ fed = NoFeed
    /\ captured = NoAudio
    /\ audio = NoAudio
    /\ stage = "recording"
    /\ calls = <<>>

NextTrack ==
    \/ InputCallback
    \/ SessionStop
    \/ Preprocess
    \/ Transcribe
    \/ Inject

SpecTrack == InitTrack /\ [][NextTrack]_vars

----------------------------------------------------------------------------
(* The threads of one open stream: the data callback on the audio thread and
   the owner of the RecordingSession, which calls get_current_level and
   stop.  Each action is one step of one thread; a thread that finds a
   mutex held stays where it is. *)

Holds(thread) == {m \in DOMAIN mutex : mutex[m] = thread}

lock(m, thread) == mutex' = [mutex EXCEPT ![m] = thread]
unlock(m) == mutex' = [mutex EXCEPT ![m] = "free"]

\* capture.rs:368: the audio thread invokes the callback of a playing stream
CallbackInvoked ==
    /\ stream = "open"
    /\ callback.pc = "idle"
    /\ callback.runs < MaxCallbacks
    /\ callback' = [callback EXCEPT !.pc = "lock_tracker"]
    /\ UNCHANGED <<mutex, caller, stream>>
    /\ UNCHANGED <<orchVars, cfgVars, detVars, shortcut_rx, hostVars,
                   sessionVars, resampleVars>>

\* capture.rs:369, tracker_clone.lock()
CallbackLocksTracker ==
    /\ callback.pc = "lock_tracker"
    /\ mutex.sample_rate_tracker = "free"
    /\ lock("sample_rate_tracker", "callback")
    /\ callback' = [callback EXCEPT !.pc = "update"]
    /\ UNCHANGED <<caller, stream>>
    /\ UNCHANGED <<orchVars, cfgVars, detVars, shortcut_rx, hostVars,
                   sessionVars, resampleVars>>

\* capture.rs:370-371: tracker.update, and the guard goes out of scope
CallbackUpdates ==
    /\ callback.pc = "update"
    /\ unlock("sample_rate_tracker")
    /\ callback' = [callback EXCEPT !.pc = "lock_buffer"]
    /\ UNCHANGED <<caller, stream>>
    /\ UNCHANGED <<orchVars, cfgVars, detVars, shortcut_rx, hostVars,
                   sessionVars, resampleVars>>

\* capture.rs:372, audio_data_clone.lock()
CallbackLocksBuffer ==
    /\ callback.pc = "lock_buffer"
    /\ mutex.audio_data = "free"
    /\ lock("audio_data", "callback")
    /\ callback' = [callback EXCEPT !.pc = "extend"]
    /\ UNCHANGED <<caller, stream>>
    /\ UNCHANGED <<orchVars, cfgVars, detVars, shortcut_rx, hostVars,
                   sessionVars, resampleVars>>

\* capture.rs:373-375: buffer.extend_from_slice, the guard goes out of scope
\* and the callback returns
CallbackExtends ==
    /\ callback.pc = "extend"
    /\ unlock("audio_data")
    /\ callback' = [pc |-> "idle", runs |-> callback.runs + 1]
    /\ UNCHANGED <<caller, stream>>
    /\ UNCHANGED <<orchVars, cfgVars, detVars, shortcut_rx, hostVars,
                   sessionVars, resampleVars>>

\* capture.rs:240: the owner calls get_current_level
LevelCalled ==
    /\ caller.pc = "idle"
    /\ caller.levels < MaxLevels
    /\ caller' = [caller EXCEPT !.pc = "level_lock"]
    /\ UNCHANGED <<mutex, callback, stream>>
    /\ UNCHANGED <<orchVars, cfgVars, detVars, shortcut_rx, hostVars,
                   sessionVars, resampleVars>>

\* capture.rs:241, self.audio_data.lock()
LevelLocksBuffer ==
    /\ caller.pc = "level_lock"
    /\ mutex.audio_data = "free"
    /\ lock("audio_data", "caller")
    /\ caller' = [caller EXCEPT !.pc = "level_read"]
    /\ UNCHANGED <<callback, stream>>
    /\ UNCHANGED <<orchVars, cfgVars, detVars, shortcut_rx, hostVars,
                   sessionVars, resampleVars>>

\* capture.rs:242-257: the level is computed and the guard goes out of scope
LevelReturns ==
    /\ caller.pc = "level_read"
    /\ unlock("audio_data")
    /\ caller' = [caller EXCEPT !.pc = "idle", !.levels = caller.levels + 1]
    /\ UNCHANGED <<callback, stream>>
    /\ UNCHANGED <<orchVars, cfgVars, detVars, shortcut_rx, hostVars,
                   sessionVars, resampleVars>>

\* the statements of RecordingSession::stop in program order,
\* capture.rs:204, 206-210, 213-216 (preceded by a faulty variant: the rate
\* is read before the stream is dropped)
stop_order_TrackerFirst == <<"lock_tracker", "drop_stream", "unwrap_buffer">>
stop_order == <<"drop_stream", "lock_tracker", "unwrap_buffer">>

At(statement) ==
    /\ caller.pc = "stop"
    /\ caller.step \in DOMAIN stop_order
    /\ stop_order[caller.step] = statement

Advance == caller' = [caller EXCEPT !.step = caller.step + 1]

\* capture.rs:202: the owner calls stop, which consumes the session
StopCalled ==
    /\ caller.pc = "idle"
    /\ caller' = [caller EXCEPT !.pc = "stop", !.step = 1]
    /\ UNCHANGED <<mutex, callback, stream>>
    /\ UNCHANGED <<orchVars, cfgVars, detVars, shortcut_rx, hostVars,
                   sessionVars, resampleVars>>

\* capture.rs:204, drop(self.stream): no callback is invoked any more
StopDropsStream ==
    /\ At("drop_stream")
    /\ stream = "open"
    /\ stream' = "closing"
    /\ UNCHANGED <<mutex, callback, caller>>
    /\ UNCHANGED <<orchVars, cfgVars, detVars, shortcut_rx, hostVars,
                   sessionVars, resampleVars>>

\* the drop of the stream returns once the audio thread has left the callback
StreamDropped ==
    /\ At("drop_stream")
    /\ stream = "closing"
    /\ callback.pc = "idle"
    /\ stream' = "dropped"
    /\ Advance
    /\ UNCHANGED <<mutex, callback>>
    /\ UNCHANGED <<orchVars, cfgVars, detVars, shortcut_rx, hostVars,
                   sessionVars, resampleVars>>

\* capture.rs:206-208, self.sample_rate_tracker.lock()
StopLocksTracker ==
    /\ At("lock_tracker")
    /\ mutex.sample_rate_tracker = "free"
    /\ lock("sample_rate_tracker", "caller")
    /\ caller' = [caller EXCEPT !.pc = "stop_read"]
    /\ UNCHANGED <<callback, stream>>
    /\ UNCHANGED <<orchVars, cfgVars, detVars, shortcut_rx, hostVars,
                   sessionVars, resampleVars>>

\* capture.rs:209-210: tracker.sample_rate(), and the guard is dropped at
\* the end of the statement
StopReadsRate ==
    /\ caller.pc = "stop_read"
    /\ unlock("sample_rate_tracker")
    /\ caller' = [caller EXCEPT !.pc = "stop", !.step = caller.step + 1]
    /\ UNCHANGED <<callback, stream>>
    /\ UNCHANGED <<orchVars, cfgVars, detVars, shortcut_rx, hostVars,
                   sessionVars, resampleVars>>

\* capture.rs:213-237: Arc::try_unwrap(self.audio_data) and into_inner take
\* the buffer without locking it; stop returns
StopReturns ==
    /\ At("unwrap_buffer")
    /\ caller' = [caller EXCEPT !.pc = "returned"]
    /\ UNCHANGED <<mutex, callback, stream>>
    /\ UNCHANGED <<orchVars, cfgVars, detVars, shortcut_rx, hostVars,
                   sessionVars, resampleVars>>

\* a session has just been started and its stream plays
InitLocks ==
    /\ pc = "select"
    /\ recording_session = Session(0)
    /\ recording_trigger \in {"PressShortcut", "HoldShortcut"}
    /\ is_processing = FALSE
    /\ shortcut_rx = <<>>
    /\ status_recording = TRUE
    /\ open_streams = 1
    /\ peak_streams = 1
    /\ result = "Ok"
    /\ last = [ev |-> NoEvent, pre_session |-> NoSession,
               pre_trigger |-> "None", after_failure |-> FALSE, pipeline |-> "none"]
    /\ InitCfg
    /\ current_config = InitialConfig
    /\ DetOff
    /\ HostOff
    /\ SessionOff
    /\ ResampleOff
    /\ mutex = [sample_rate_tracker |-> "free", audio_data |-> "free"]
    /\ callback = [pc |-> "idle", runs |-> 0]
    /\ caller = [pc |-> "idle", step |-> 0, levels |-> 0]
    /\ stream = "open"

NextLocks ==
    \/ CallbackInvoked
    \/ CallbackLocksTracker
    \/ CallbackUpdates
    \/ CallbackLocksBuffer
    \/ CallbackExtends
    \/ LevelCalled
    \/ LevelLocksBuffer
    \/ LevelReturns
    \/ StopCalled
    \/ StopDropsStream
    \/ StreamDropped
    \/ StopLocksTracker
    \/ StopReadsRate
    \/ StopReturns

SpecLocks == InitLocks /\ [][NextLocks]_vars

----------------------------------------------------------------------------
(* Properties of the detector, checked under SpecDet and SpecSys *)

Range(seq) == {seq[i] : i \in 1..Len(seq)}

\* C10: from no key pressed and the debounce window elapsed, while only
\* key-downs of target keys have been handled, the detector has emitted no
\* Start before the last target key is down and exactly one Start once it
\* is, whatever the order of the key-downs.
C10_OneStartAtLastKey ==
    (run.clean /\ run.armed) =>
        run.starts = (IF target_keys \subseteq Range(run.log) THEN 1 ELSE 0)

\* the keys went down in the reverse order and the Press detector fired once
C10_Witness ==
    /\ kind = "Press"
    /\ run.clean /\ run.armed
    /\ run.log = <<"KEY_V", "KEY_LEFTSHIFT", "KEY_LEFTCTRL">>
    /\ run.starts = 1
    /\ combination_active
    /\ last_trigger = now

HoldRecording ==
    /\ recording_session.some
    /\ recording_trigger = "HoldShortcut"

\* C9: whenever a Hold-triggered recording is active and the detector's
\* loop has handled the release of a target key since the Start it emitted,
\* the orchestrator eventually stops the recording.
C9_HoldRecordingStops ==
    (HoldRecording /\ run.released) ~> ~recording_session.some

\* the step emits an event: the loop has called try_send
Emits(phase) ==
    /\ Len(shortcut_rx') = Len(shortcut_rx) + 1
    /\ shortcut_rx'[Len(shortcut_rx')].phase = phase

\* the step completes the combination in the loop's pressed-key set
Completes ==
    /\ ~CombinationPressed(pressed_keys)
    /\ CombinationPressed(pressed_keys')

\* C11: a Press detector emits Start only when more than 500 ms have passed
\* since the Start it emitted before: a completion of the combination within
\* 500 ms of the last trigger emits nothing and leaves the detector inactive.
C11_PressDebounced ==
    [][kind = "Press" =>
        /\ Emits("Start") => now - last_trigger > debounce_duration
        /\ (Completes /\ now - last_trigger <= debounce_duration) =>
                /\ shortcut_rx' = shortcut_rx
                /\ ~combination_active'
                /\ last_trigger' = last_trigger
        /\ (Completes /\ ~combination_active
              /\ now - last_trigger > debounce_duration) =>
                /\ Emits("Start")
                /\ last_trigger' = now]_vars

\* the combination is complete again within the window and was debounced
C11_Witness ==
    /\ kind = "Press"
    /\ CombinationPressed(pressed_keys)
    /\ ~combination_active
    /\ now - last_trigger <= debounce_duration
    /\ shortcut_rx = <<>>

\* the loop handles the release of key: the keyboard is monitored and
\* delivers the key event with value 0
Releases(key) ==
    /\ key \in held
    /\ held' = held \ {key}
    /\ present' = present
    /\ Keyboard \in devices \ stale

\* C12: when a Hold detector with the combination active handles a release,
\* a key outside the target set emits nothing and leaves the combination
\* active, while a target key emits exactly one End and makes the detector
\* Idle; a release handled while Idle emits nothing.
C12_HoldEndOnTargetRelease ==
    [][kind = "Hold" =>
        \A key \in Keys :
            Releases(key) =>
                IF combination_active /\ key \in target_keys
                THEN /\ shortcut_rx' =
                            Append(shortcut_rx, ShortcutEvent("Hold", "End", is_processing))
                     /\ ~combination_active'
                ELSE /\ shortcut_rx' = shortcut_rx
                     /\ combination_active' = combination_active]_vars

\* a target key was released out of the active combination while another
\* key stayed down, and End is the event emitted last
C12_Witness ==
    /\ kind = "Hold"
    /\ ~combination_active
    /\ pressed_keys = (target_keys \ {"KEY_V"}) \cup {"KEY_X"}
    /\ shortcut_rx # <<>>
    /\ shortcut_rx[Len(shortcut_rx)].phase = "End"

\* C13: a Press detector emits only Start events, and whenever a detector
\* emits End, the event it emitted before that is a Start.
C13_EndFollowsStart ==
    [][/\ kind = "Press" => ~Emits("End")
       /\ Emits("End") => (kind = "Hold" /\ run.sent = "Start")]_vars

\* a Hold detector has emitted Start and then End, and every key is up again
C13_Witness ==
    /\ kind = "Hold"
    /\ run.sent = "End"
    /\ pressed_keys = {}
    /\ held = {}
    /\ shortcut_rx = <<ShortcutEvent("Hold", "End", FALSE)>>

\* C14: when the read of a monitored device fails, ENODEV, EBADF and ENXIO
\* remove that device and no other from the monitored set, WouldBlock and
\* any other error remove none, and the loop keeps running.
C14_DisconnectRemovesDevice ==
    /\ [](\A d \in devices, err \in ErrorKinds :
            devices_after_error(d, err) = IF err \in {"ENODEV", "EBADF", "ENXIO"}
                                          THEN devices \ {d}
                                          ELSE devices)
    /\ [][\A d \in devices, err \in ErrorKinds :
            (dpc = "run" /\ err \in FetchErrors(d) /\ fetch_error(d, err)) =>
                /\ devices' = IF err \in {"ENODEV", "EBADF", "ENXIO"}
                              THEN devices \ {d}
                              ELSE devices
                /\ dpc' = "run"]_vars

\* the typing keyboard went away and its handle was dropped on a read error
\* (no udev event was delivered and no rescan ran), the other keyboard stays
C14_Witness ==
    /\ dpc = "run"
    /\ Keyboard \notin present
    /\ devices = {"event1"}
    /\ stale = {}
    /\ monitor = "starting"
    /\ ~fallback_rescan_enabled

\* the loop takes an Added, Removed or Changed event off rescan_rx
HandlesDeviceEvent ==
    /\ rescan_rx # <<>>
    /\ rescan_rx' = Tail(rescan_rx)
    /\ Head(rescan_rx).type \in {"Added", "Removed", "Changed"}

\* the loop drops a handle whose read failed with a disconnect errno
RemovesDisconnected ==
    /\ rescan_rx' = rescan_rx
    /\ last_fallback_rescan' = last_fallback_rescan
    /\ \E d \in devices \cap stale : devices' = devices \ {d}

\* C15: after the detector has handled an Added, Removed or Changed event,
\* or has removed a disconnected device, its pressed-key set is empty and
\* the combination is not active.
C15_DeviceChangeResetsKeys ==
    [][(HandlesDeviceEvent \/ RemovesDisconnected) =>
            (pressed_keys' = {} /\ ~combination_active')]_vars

\* the whole combination is still held down on a monitored keyboard after a
\* Hold Start, no release was handled, and yet no key counts as pressed
C15_Witness ==
    /\ kind = "Hold"
    /\ run.sent = "Start"
    /\ ~run.released
    /\ target_keys \subseteq held
    /\ Keyboard \in devices \ stale
    /\ pressed_keys = {}
    /\ ~combination_active
    /\ ~fallback_rescan_enabled

\* the loop handles the key-down that completes the combination while the
\* trigger condition (170-176) holds
CompletesArmed ==
    /\ Completes
    /\ kind = "Press" => now - last_trigger > debounce_duration

\* C16: the loop keeps running when it drops a keyboard, also its last one;
\* when it then handles an Added event for a keyboard node that exists, the
\* keyboard is monitored again; and completing the combination on a
\* keyboard monitored this way emits Start.
C16_ReconnectRecovers ==
    [][/\ (RemovesDisconnected \/ HandlesDeviceEvent) => dpc' = "run"
       /\ \A path \in Paths :
            ( /\ HandlesDeviceEvent
              /\ Head(rescan_rx) = InputDeviceEvent("Added", path)
              /\ is_keyboard_device(path)
              /\ path \notin devices
              /\ path \in present ) => path \in devices' \ stale'
       /\ (run.readded /\ CompletesArmed) => Emits("Start")]_vars

\* the typing keyboard was dropped and opened again on an Added event, and
\* the combination pressed on it afterwards has emitted Start
C16_Witness ==
    /\ run.readded
    /\ Keyboard \in devices \ stale
    /\ combination_active
    /\ run.sent = "Start"
    /\ target_keys \subseteq pressed_keys
    /\ shortcut_rx # <<>>
    /\ shortcut_rx[Len(shortcut_rx)].phase = "Start"

----------------------------------------------------------------------------
(* Properties of the orchestrator, checked under Spec *)

\* the step of the event loop that takes an event of this kind and phase
\* off the channel and handles it
Handling(k, p) ==
    /\ pc = "select"
    /\ shortcut_rx # <<>>
    /\ shortcut_rx' = Tail(shortcut_rx)
    /\ Head(shortcut_rx).kind = k
    /\ Head(shortcut_rx).phase = p

Idle == ~recording_session.some /\ ~is_processing /\ pc = "select"

\* the step in which the awaited process_audio returns
PipelineReturns == pc = "pipeline" /\ pc' # "pipeline"

\* what stop_recording leaves behind when it is called on an open session:
\* the session is gone and its stream closed; unless a collaborator call
\* before the pipeline returned an error the trigger is cleared; and the
\* pipeline is entered exactly when audio was captured
StopsSession ==
    /\ recording_session' = NoSession
    /\ open_streams' = 0
    /\ result' # "Err" => recording_trigger' = "None"
    /\ (result' # "Err" /\ recording_session.samples > 0)
          <=> (pc' = "pipeline" /\ is_processing')
    /\ pc' # "pipeline" => (pc' = "select" /\ ~is_processing')

\* C1: whatever events arrive, at most one RecordingSession and one hardware
\* stream exist: a stream is never opened while another is open, and the
\* open streams are exactly the stream of the session the orchestrator holds.
C1_AtMostOneSession ==
    /\ peak_streams <= 1
    /\ open_streams = (IF recording_session.some THEN 1 ELSE 0)

C1_Witness ==
    /\ last.ev.phase = "Start"
    /\ last.ev.kind = "Hold"
    /\ last.pre_session.some
    /\ last.pre_trigger = "HoldShortcut"
    /\ recording_session.some
    /\ open_streams = 1

\* C2: handling Hold/End while the session was started by Press changes
\* nothing: same session, trigger still Press, no pipeline entered, stream
\* and status untouched.
C2_HoldEndKeepsPressRecording ==
    [][ (Handling("Hold", "End") /\ recording_session.some
            /\ recording_trigger = "PressShortcut")
        => /\ recording_session' = recording_session
           /\ recording_trigger' = "PressShortcut"
           /\ is_processing' = is_processing
           /\ pc' = "select"
           /\ open_streams' = open_streams
           /\ status_recording' = status_recording ]_vars

C2_Witness ==
    /\ last.ev.kind = "Hold" /\ last.ev.phase = "End"
    /\ last.pre_session.some
    /\ last.pre_trigger = "PressShortcut"
    /\ recording_session.some
    /\ recording_trigger = "PressShortcut"

\* C3: from Idle, Hold/Start opens a session tagged Hold (when opening
\* succeeds); Hold/End on that session stops it and enters the pipeline; and
\* when the pipeline returns the orchestrator is Idle with no session, no
\* trigger and is_processing false.
C3_HoldCycle ==
    [][ /\ (Handling("Hold", "Start") /\ Idle)
            => /\ result' = "Ok" => recording_session' = Session(0)
               /\ recording_session'.some => recording_trigger' = "HoldShortcut"
        /\ (Handling("Hold", "End") /\ recording_session.some
                /\ recording_trigger = "HoldShortcut")
            => StopsSession
        /\ PipelineReturns
            => /\ recording_session' = NoSession
               /\ recording_trigger' = "None"
               /\ ~is_processing'
               /\ pc' = "select" ]_vars

C3_Witness ==
    /\ last.ev.kind = "Hold" /\ last.ev.phase = "End"
    /\ last.pre_session.some
    /\ last.pre_trigger = "HoldShortcut"
    /\ last.pipeline = "injected"
    /\ Idle
    /\ recording_trigger = "None"

\* C4: Press/Start toggles: in Idle it opens a session tagged Press (when
\* opening succeeds); with a session open, whichever kind started it, it
\* stops that session and enters the pipeline, after which the orchestrator
\* is Idle.
C4_PressToggle ==
    [][ /\ (Handling("Press", "Start") /\ Idle)
            => /\ result' = "Ok" => recording_session' = Session(0)
               /\ recording_session'.some => recording_trigger' = "PressShortcut"
        /\ (Handling("Press", "Start") /\ recording_session.some)
            => StopsSession
        /\ (PipelineReturns /\ last.ev.kind = "Press")
            => Idle' ]_vars

C4_Witness ==
    /\ last.ev.kind = "Press" /\ last.ev.phase = "Start"
    /\ last.pre_session.some
    /\ last.pre_trigger = "HoldShortcut"
    /\ last.pipeline # "none"
    /\ Idle

\* C5: handling Hold/Start while a session exists is a no-op: session,
\* trigger, processing flag, streams and status are unchanged.
C5_HoldStartNoOp ==
    [][ (Handling("Hold", "Start") /\ recording_session.some)
        => /\ UNCHANGED <<recording_session, recording_trigger, is_processing>>
           /\ UNCHANGED <<open_streams, peak_streams, status_recording>>
           /\ pc' = "select" ]_vars

C5_Witness ==
    /\ last.ev.kind = "Hold" /\ last.ev.phase = "Start"
    /\ last.pre_session.some
    /\ last.pre_trigger = "PressShortcut"
    /\ recording_session = last.pre_session
    /\ recording_trigger = "PressShortcut"

\* C6 (as claimed): a Press/Start sent while the orchestrator was processing
\* never changes the orchestrator's state, also not when it is taken off the
\* channel after the pipeline has returned.
C6_BusyPressStartIgnored ==
    [][ (Handling("Press", "Start") /\ Head(shortcut_rx).busy)
        => UNCHANGED <<recording_session, recording_trigger, is_processing,
                       open_streams, status_recording>> ]_vars

\* C7: when process_audio fails (fast VAD, transcription or injection), the
\* pipeline still returns to Idle with is_processing reset, and the next
\* Press/Start or Hold/Start is not ignored: it opens a session tagged with
\* its kind whenever opening succeeds.
C7_FailureReturnsToIdle ==
    [][ /\ (PipelineReturns /\ last'.pipeline \in PipelineFailures)
            => Idle' /\ recording_trigger' = "None"
        /\ \A k \in {"Press", "Hold"} :
            (Handling(k, "Start") /\ last.pipeline \in PipelineFailures)
            => /\ Idle
               /\ result' = "Ok" => recording_session' = Session(0)
               /\ recording_session'.some
                    => recording_trigger' = (IF k = "Press" THEN "PressShortcut"
                                             ELSE "HoldShortcut") ]_vars

C7_Witness ==
    /\ last.after_failure
    /\ last.ev.phase = "Start"
    /\ recording_session.some
    /\ result = "Ok"

\* C8 (as claimed): a configuration published while a session existed or the
\* pipeline was running is never applied: the step that takes it off the
\* watch channel leaves the configuration, the listeners, the preferred
\* device, the transcriber and the fast VAD as they were.
C8_BusyUpdateRejected ==
    [][ (pc = "select" /\ config_rx.changed /\ config_rx.busy
            /\ ~config_rx'.changed)
        => UNCHANGED <<current_config, press_listener, hold_listener,
                       preferred_device, transcriber, fast_vad>> ]_vars

\* C20 (as claimed): a Press/Start or Hold/Start handled in Idle whose
\* start_recording opens no session returns an error and leaves the
\* orchestrator Idle with no session, no trigger and no stream, the loop
\* back at its select; and a Start handled after such a failure opens a
\* session tagged with its kind whenever start_recording succeeds.
C20_OpenFailureLeavesIdle ==
    [][ \A k \in {"Press", "Hold"} :
          /\ (Handling(k, "Start") /\ Idle /\ ~recording_session'.some)
                => /\ result' = "Err"
                   /\ Idle'
                   /\ recording_trigger' = "None"
                   /\ open_streams' = 0
          /\ (/\ Handling(k, "Start") /\ Idle
              /\ last.ev.phase = "Start" /\ result = "Err"
              /\ result' = "Ok")
                => /\ recording_session' = Session(0)
                   /\ recording_trigger' = (IF k = "Press" THEN "PressShortcut"
                                            ELSE "HoldShortcut") ]_vars

Slot(k) == IF k = "Press" THEN press_listener ELSE hold_listener
Configured(config, k) == IF k = "Press" THEN config.press ELSE config.hold

\* the listeners are exactly those the configuration asks for
ListenersOf(config) ==
    \A k \in {"Press", "Hold"} :
        Slot(k) = IF Configured(config, k) # ""
                  THEN Listener(Configured(config, k), k)
                  ELSE NoListener

----------------------------------------------------------------------------
(* Properties of stopping a listener, checked under SpecStop *)

\* C17: a call of ShortcutListener::stop() that has started to join the
\* detector thread returns.
C17_StopReturns == (stopper = "join") ~> (stopper = "returned")

\* C18: once stop() has returned, the detector thread has ended, the
\* listener holds no handle, and no step places a ShortcutEvent in the
\* channel, whatever keys are pressed afterwards.
C18_NoEventAfterStop ==
    /\ [](stopper = "returned" => dpc = "exited" /\ handle = "None")
    /\ [][stopper = "returned" => ~Emits("Start") /\ ~Emits("End")]_vars

\* stop() has returned and the whole combination is pressed afterwards
C18_Witness ==
    /\ stopper = "returned"
    /\ pressed_keys = {}
    /\ target_keys \subseteq held
    /\ shortcut_rx = <<>>

----------------------------------------------------------------------------
(* Properties of opening the input device, checked under SpecCapture *)

\* a name with its ASCII letters folded to lower case
Folded(name) == [i \in DOMAIN name |-> to_ascii_lowercase(name[i])]

\* the first enumerated device whose name differs, ignoring ASCII case
FirstOther(name) ==
    LET others == { i \in DOMAIN input_devices :
                      Folded(input_devices[i].name) # Folded(name) }
    IN  IF others = {} THEN NoDevice
        ELSE input_devices[CHOOSE i \in others : \A j \in others : i <= j]

\* C21: start_recording makes at most two attempts; a second one only
\* after the first failed on a device selected as Preferred or Default; the
\* second targets the first enumerated device whose name differs, ignoring
\* ASCII case, from the failed device's name; and when that attempt fails
\* or there is no such device, start_recording returns an error and no
\* session.
C21_OneFallbackRetry ==
    /\ [](/\ Len(attempts) <= 2
          /\ Len(attempts) = 2 =>
                /\ attempts[1].device.id \in unopenable
                /\ attempts[1].source \in {"Preferred", "Default"}
          /\ capture.result = "Session" <=>
                (/\ capture.pc = "done"
                 /\ attempts # <<>>
                 /\ attempts[Len(attempts)].device.id \notin unopenable))
    /\ [][ (capture.pc = "fallback" /\ capture'.pc = "done") =>
            LET target == FirstOther(attempts[1].device.name) IN
            IF Len(attempts') = 2
            THEN /\ target # NoDevice
                 /\ attempts'[2].device = target
                 /\ attempts'[2].source = "Fallback"
                 /\ target.id \in unopenable
                        => capture'.result \notin {"None", "Session"}
            ELSE capture'.result \notin {"None", "Session"} ]_vars

\* the first device failed, an enumerated device of the same name up to
\* ASCII case was passed over, and the fallback attempt opened a session
C21_Witness ==
    /\ Len(attempts) = 2
    /\ capture.result = "Session"
    /\ Len(input_devices) = 2
    /\ attempts[2].device = input_devices[2]
    /\ Folded(input_devices[1].name) = Folded(attempts[1].device.name)
    /\ input_devices[1].name # attempts[1].device.name

\* C22 (as claimed): the first selection start_recording makes is the
\* device at the preferred index if the enumeration has that index;
\* otherwise the default input device if there is one; otherwise the first
\* enumerated device, tagged Fallback; and an error if no device is
\* enumerated.  An enumeration that fails enumerates nothing.
C22_SelectionPriority ==
    [][ (capture.pc = "idle" /\ capture'.pc # "idle") =>
        LET enumerated == IF capture'.result = "DevicesError" THEN <<>>
                          ELSE input_devices
        IN  IF preferred_device # NoIndex
               /\ preferred_device + 1 \in DOMAIN enumerated
            THEN attempts' = <<Selection(enumerated[preferred_device + 1],
                                         "Preferred")>>
            ELSE IF default_input_device # NoDevice
            THEN attempts' = <<Selection(default_input_device, "Default")>>
            ELSE IF enumerated # <<>>
            THEN attempts' = <<Selection(Head(enumerated), "Fallback")>>
            ELSE /\ attempts' = <<>>
                 /\ capture'.pc = "done"
                 /\ capture'.result \notin {"None", "Session"} ]_vars

----------------------------------------------------------------------------
(* Properties of resample_audio, checked under SpecResample *)

\* C30: called with no samples, or with src_rate 0, or with dst_rate 0,
\* resample_audio returns, without a division by zero, and what it returns
\* is empty.
C30_DegenerateInputsGiveEmpty ==
    [][ (/\ \/ resample_in.samples = <<>>
            \/ resample_in.src_rate = 0
            \/ resample_in.dst_rate = 0
         /\ ~resample_out.returned
         /\ resample_out' # resample_out)
        => /\ resample_out'.returned
           /\ ~resample_out'.panicked
           /\ resample_out'.samples = <<>> ]_vars

\* resample_audio has returned from a call with samples and a zero rate
C30_Witness ==
    /\ resample_out.returned
    /\ resample_in.samples # <<>>
    /\ resample_in.src_rate = 0
    /\ resample_in.dst_rate # 0

----------------------------------------------------------------------------
(* Properties of one recording session, checked under SpecTrack *)

\* RecordingSession::stop returns Ok in this step
StopReturnsOk ==
    stage = "recording" /\ stage' # "recording" /\ recording_trigger' = "None"

\* C23: the audio RecordingSession::stop returned has a sample rate above
\* zero whenever it has samples, whatever the callbacks delivered.
C23_NonEmptyAudioHasRate ==
    ~is_empty(captured) => captured.sample_rate > 0

\* C24: stopping a session whose buffer is empty yields audio without
\* samples at the nominal rate or the last measured one, no collaborator of
\* the pipeline is invoked for it, is_processing is not set and the
\* orchestrator is Idle.
C24_EmptySessionSkipsPipeline ==
    /\ [][ (StopReturnsOk /\ recording_session.samples = 0)
           => /\ is_empty(captured')
              /\ captured'.sample_rate \in
                     {sample_rate_tracker.requested}
                     \cup ({sample_rate_tracker.measured} \ {NoRate})
              /\ captured'.sample_rate > 0
              /\ stage' = "done"
              /\ calls' = <<>>
              /\ ~is_processing'
              /\ Idle' ]_vars
    /\ []((stage = "done" /\ is_empty(captured)) => (calls = <<>> /\ Idle))

\* a session that received callbacks without samples has been stopped
C24_Witness ==
    /\ stage = "done"
    /\ is_empty(captured)
    /\ captured.sample_rate = requested_sample_rate
    /\ recording_trigger = "None"
    /\ Idle

\* round(frames / seconds)
Rounded(frames, ms) == (2000 * frames + ms) \div (2 * ms)

\* C25 as stated: stop reports the rate computed by the window that
\* completed last, if one completed, and the nominal rate otherwise.
C25_LastCompletedWindow ==
    [][ StopReturnsOk
        => captured'.sample_rate =
               IF fed.windows > 0
               THEN Rounded(fed.window.frames, fed.window.ms)
               ELSE sample_rate_tracker.requested ]_vars

\* C25: stop reports the rate computed by the last completed window that
\* counted at least one frame, if there is one, and the nominal rate
\* otherwise.
C25_LastRatedWindow ==
    [][ StopReturnsOk
        => captured'.sample_rate =
               IF fed.rated.ms > 0
               THEN Rounded(fed.rated.frames, fed.rated.ms)
               ELSE sample_rate_tracker.requested ]_vars

\* a session was stopped after a window with frames had completed and the
\* rate reported is the one of that window, not the nominal one
C25_Witness ==
    /\ stage = "preprocess"
    /\ ~is_empty(captured)
    /\ captured.sample_rate \notin {0, requested_sample_rate}

\* C26 as stated: a tracker fed 16000 frames in all over timestamps
\* spanning 1000 ms reports 16000, however the frames were split.
C26_ExactRateForEverySplit ==
    (/\ stage = "recording"
     /\ fed.ordered
     /\ fed.frames = 16000
     /\ fed.elapsed = 1000)
    => sample_rate_tracker.measured = 16000

\* C26: a tracker fed, after its first callback, 16000 frames over
\* timestamps spanning 1000 ms, every callback carrying 16 frames per
\* millisecond since the callback before it, reports 16000, however the
\* frames were split.
C26_ExactRateAtSteadyDelivery ==
    (/\ stage = "recording"
     /\ fed.steady
     /\ fed.counted = 16000
     /\ fed.elapsed = 1000)
    => sample_rate_tracker.measured = 16000

\* 16000 frames over one second, delivered in two callbacks after the first
C26_Witness ==
    /\ stage = "recording"
    /\ fed.steady
    /\ fed.callbacks = 3
    /\ fed.counted = 16000
    /\ fed.elapsed = 1000
    /\ sample_rate_tracker.accumulated_frames = 0
    /\ sample_rate_tracker.measured = 16000

\* the fast VAD has trimmed the recording to nothing
TrimmedToSilence ==
    \E i \in DOMAIN calls :
        calls[i].call = "trim" /\ calls[i].ok /\ calls[i].len = 0

Invoked(name) == {i \in DOMAIN calls : calls[i].call = name}

\* C27: once the fast VAD has reported silence only, process_audio has
\* returned: neither the transcriber nor the injector is invoked for the
\* recording, and the orchestrator is Idle.
C27_SilenceEndsPipeline ==
    TrimmedToSilence
    => /\ stage = "done"
       /\ last.pipeline = "silence"
       /\ Invoked("transcribe") = {}
       /\ Invoked("inject_text") = {}
       /\ Idle

\* a recording with samples was trimmed to nothing
C27_Witness ==
    /\ TrimmedToSilence
    /\ ~is_empty(captured)
    /\ stage = "done"

\* a text with a character that is not whitespace
HasContent(text) == \E j \in DOMAIN text : text[j] \notin Whitespace

\* C28: the injector is invoked at most once for a stopped session, directly
\* after a transcription that returned Ok with a text that is not empty once
\* trimmed; a transcription that failed or returned a blank text is followed
\* by no injection.
C28_InjectOnceAfterTranscription ==
    /\ Cardinality(Invoked("inject_text")) <= 1
    /\ \A i \in Invoked("inject_text") :
          /\ i > 1
          /\ calls[i - 1].call = "transcribe"
          /\ calls[i - 1].ok
          /\ HasContent(calls[i - 1].text)
          /\ calls[i].text = calls[i - 1].text
    /\ \A i \in Invoked("transcribe") :
          (~calls[i].ok \/ ~HasContent(calls[i].text))
          => (Invoked("inject_text") = {} /\ stage = "done")

\* a text with surrounding whitespace was transcribed and injected
C28_Witness ==
    \E i \in Invoked("inject_text") :
        /\ calls[i].ok
        /\ calls[i].text = <<"SP", "h", "i", "LF">>
        /\ stage = "done"

----------------------------------------------------------------------------
(* Properties of the threads of an open stream, checked under SpecLocks *)

\* the thread is at a lock() of a mutex that another thread holds
WaitsFor(thread, m) ==
    /\ mutex[m] \notin {"free", thread}
    /\ \/ thread = "callback" /\ m = "sample_rate_tracker"
                              /\ callback.pc = "lock_tracker"
       \/ thread = "callback" /\ m = "audio_data" /\ callback.pc = "lock_buffer"
       \/ thread = "caller" /\ m = "audio_data" /\ caller.pc = "level_lock"
       \/ thread = "caller" /\ m = "sample_rate_tracker"
                            /\ caller.pc = "stop" /\ At("lock_tracker")

Stuck(thread) ==
    \/ \E m \in DOMAIN mutex : WaitsFor(thread, m)
    \/ thread = "caller" /\ stream = "closing" /\ callback.pc # "idle"

\* C29: the callback never waits for the tracker mutex, which no other
\* thread takes before the stream is dropped; the callback never holds both
\* mutexes; and the callback and the owner of the session are never both
\* waiting, whatever the owner calls.
C29_CallbackWaitsOnlyForBuffer ==
    /\ ~WaitsFor("callback", "sample_rate_tracker")
    /\ (mutex.sample_rate_tracker = "caller" => stream = "dropped")
    /\ Cardinality(Holds("callback")) <= 1
    /\ ~(Stuck("callback") /\ Stuck("caller"))
    /\ (caller.pc = "returned" => (callback.pc = "idle" /\ Holds("caller") = {}))

\* the callback is in buffer.extend while the owner waits in
\* get_current_level, and the owner has already taken a level before
C29_Witness ==
    /\ stream = "open"
    /\ callback.pc = "extend"
    /\ WaitsFor("caller", "audio_data")
    /\ caller.levels > 0

----------------------------------------------------------------------------
(* Laws of resample_audio, checked under SpecResample *)

\* resample_audio returns from a call in this step
ResampleReturns == ~resample_out.returned /\ resample_out'.returned

\* C31: called with samples and with src_rate = dst_rate > 0, resample_audio
\* returns its input: as many samples, the same values in the same order.
C31_EqualRatesIsIdentity ==
    [][ (/\ ~resample_out.returned
         /\ resample_out' # resample_out
         /\ resample_in.samples # <<>>
         /\ resample_in.src_rate = resample_in.dst_rate
         /\ resample_in.src_rate > 0)
        => (resample_out'.returned
            /\ resample_out'.samples = resample_in.samples) ]_vars

\* three different samples came back from a call at 48 kHz to 48 kHz
C31_Witness ==
    /\ resample_out.returned
    /\ resample_in.samples = <<4, -4, 0>>
    /\ resample_in.src_rate = 48000
    /\ resample_in.dst_rate = 48000
    /\ resample_out.samples = <<4, -4, 0>>

Distance(a, b) == IF a >= b THEN a - b ELSE b - a

\* round(len * dst_rate / src_rate) in integer arithmetic
RoundedLen(len, src_rate, dst_rate) == (len * dst_rate + src_rate \div 2) \div src_rate

\* C32: between two different rates resample_audio returns
\* (len * dst_rate + src_rate / 2) / src_rate samples, and audio brought from
\* 16 kHz to 8 kHz and back has as many samples as it started with, give or
\* take one.
C32_RoundTripLength ==
    [][ (/\ ResampleReturns
         /\ resample_in.src_rate # resample_in.dst_rate
         /\ resample_in.src_rate > 0
         /\ resample_in.dst_rate > 0)
        => (/\ Len(resample_out'.samples) =
                   RoundedLen(Len(resample_in.samples), resample_in.src_rate,
                              resample_in.dst_rate)
            /\ (/\ resample_in.origin # <<>>
                /\ resample_in.src_rate = 8000
                /\ resample_in.dst_rate = 16000)
                => Distance(Len(resample_out'.samples), resample_in.origin[1]) <= 1)
      ]_vars

\* three samples went to 8 kHz as two and came back as four
C32_Witness ==
    /\ resample_out.returned
    /\ resample_in.origin = <<3>>
    /\ resample_in.src_rate = 8000
    /\ resample_in.dst_rate = 16000
    /\ Len(resample_in.samples) = 2
    /\ Len(resample_out.samples) = 4

----------------------------------------------------------------------------
(* Further properties of the detector, checked under SpecDet *)

\* C33: whenever the detector is not in the middle of handling an event,
\* combination_active implies that every target key is in pressed_keys.
C33_ActiveImpliesTargetPressed ==
    combination_active => target_keys \subseteq pressed_keys

\* the combination is active with another key down beside it
C33_Witness ==
    /\ combination_active
    /\ pressed_keys = target_keys \cup {"KEY_X"}

\* the loop handles the key-down of key
Presses(key) ==
    /\ key \notin held
    /\ held' = held \cup {key}
    /\ Keyboard \in devices \ stale

\* C39: a detector emits Start only in a step that handles the key-down of
\* a target key.
C39_StartOnlyOnTargetKeyDown ==
    [][Emits("Start") => \E key \in target_keys : Presses(key)]_vars

\* the loop runs the periodic rescan of the fallback mode
Rescans ==
    /\ dpc = "run"
    /\ fallback_rescan_enabled
    /\ now - last_fallback_rescan >= fallback_rescan_interval
    /\ last_fallback_rescan' = now

\* C40: a periodic rescan that finds the keyboards the loop already
\* monitors leaves pressed_keys and combination_active as they were.
C40_RescanKeepsKeyState ==
    [][(Rescans /\ stale = {} /\ devices' = devices)
        => (pressed_keys' = pressed_keys
            /\ combination_active' = combination_active)]_vars

----------------------------------------------------------------------------
(* Further properties of the orchestrator, checked under Spec *)

\* the select! branch of the watch channel runs apply_config_update
AppliesConfig == pc = "select" /\ config_rx.changed /\ ~config_rx'.changed

\* C36: when apply_config_update returns an error, the preferred audio
\* device, the transcriber, both listeners, the fast VAD and current_config
\* are as they were before the call.
C36_ConfigUpdateAtomic ==
    [][(AppliesConfig /\ result' = "Err")
        => UNCHANGED <<preferred_device, transcriber, press_listener,
                       hold_listener, fast_vad, current_config>>]_vars

\* C34: between the handling of two events, the last notification the
\* status collaborator has received is recording = true exactly when a
\* recording session exists.
C34_StatusFollowsSession ==
    pc = "select" => (status_recording <=> recording_session.some)

\* C38: between the handling of two events, recording_trigger is Some
\* exactly when recording_session is Some.
C38_TriggerFollowsSession ==
    pc = "select" => (recording_trigger # "None" <=> recording_session.some)

----------------------------------------------------------------------------
(* A further property of the pipeline, checked under SpecTrack *)

\* C35: the transcriber is never given an empty sequence of samples.
C35_TranscribeGetsSamples ==
    \A i \in Invoked("transcribe") : calls[i].given > 0

\* the same, for recordings that do not go through the fast VAD and whose
\* captured rate is not zero
C35_ExceptZeroRate ==
    (fast_vad = NoVad /\ captured.sample_rate # 0) => C35_TranscribeGetsSamples

----------------------------------------------------------------------------
(* A property of the shortcut channel, checked under SpecChan *)

\* the step is one in which the detector's loop calls tx.try_send
\* (shortcuts.rs:190 for Start, 219 for End)
CallsTrySend ==
    \/ ~combination_active /\ combination_active'
    \/ kind = "Hold" /\ combination_active /\ ~combination_active' /\ held' # held

\* C37: no shortcut event is lost between the detector and the orchestrator:
\* every event the detector's loop sends, also while the event loop runs the
\* pipeline, is put on the channel the event loop receives from.
C37_NoEventLost ==
    [][CallsTrySend => Len(shortcut_rx') = Len(shortcut_rx) + 1]_vars

\* the channel is full while the event loop runs the pipeline
ChannelFull == pc = "pipeline" /\ Len(shortcut_rx) = ChannelCapacity


====
